---- MODULE Spec2Model ----
(***************************************************************************)
(* Authentication core of the FastAPI user service: token issuance and     *)
(* verification (src/core/security.py), the per-request identity resolver  *)
(* (src/core/auth.py), login (src/user/routers/auth_router.py) and the     *)
(* principal store (UserRepository / UserService).                         *)
(*                                                                         *)
(* Spec is the running service, one request at a time.  TokenSpec,         *)
(* TamperSpec and PasswordSpec apply the functions of security.py to       *)
(* inputs of every shape; StoreSpec runs register_user and update_user     *)
(* concurrently, giving way at every await.                                *)
(*                                                                         *)
(* Time is the true UTC epoch time in seconds.  Python values that can be  *)
(* None, int or str are tagged records, so that str(42) = "42" is not the  *)
(* integer 42.  Spanish response texts are written without accents.        *)
(***************************************************************************)
EXTENDS Integers, Sequences, FiniteSets, TLC

VARIABLES
    now,      \* true UTC epoch time, seconds
    tz,       \* UTC offset of the host's local time zone, seconds (local - UTC)
    users,    \* table "users": set of rows [id, email, hashed_password, is_active]
    nextId,   \* next value of the primary-key sequence
    held,     \* last response of a token-issuing call, as the client keeps it
    req,      \* the request being resolved: position, inputs, locals, outcome
    probe,    \* a direct call of a function of security.py: input and result
    svc       \* the UserService calls in flight, one per worker

vars == <<now, tz, users, nextId, held, req, probe, svc>>

-----------------------------------------------------------------------------
(* Bounds of the model *)

MaxUsers == 2
MaxTime == 3480
TickSeconds == 1740
MaxBase == 3

Emails == {"a@example.com", "b@example.com"}
TZOffsets == {0 - 18000, 0, 3600}            \* America/Lima, UTC, Europe/Madrid
Deltas == {0, 900}                           \* expires_delta: 0 is None / timedelta(0)

-----------------------------------------------------------------------------
(* Python values *)

PyNone == [t |-> "none"]
PyAbsent == [t |-> "absent"]                  \* key not in the dict
PyInt(n) == [t |-> "int", i |-> n]
PyStr(x) == [t |-> "str", s |-> x]

\* the elements of a sequence
Range(seq) == {seq[i] : i \in 1..Len(seq)}

\* str(v) for an int or a str
str(v) == IF v.t = "int" THEN PyStr(ToString(v.i)) ELSE v

-----------------------------------------------------------------------------
(* Configuration: src/core/config.py *)

SECRET_KEY == "your-secret-key-change-in-production"
ALGORITHM == "HS256"
ACCESS_TOKEN_EXPIRE_MINUTES == 30

-----------------------------------------------------------------------------
(* TokenService: src/core/security.py *)

NoToken == [kind |-> "none", alg |-> "", key |-> "",
            claims |-> [sub |-> PyAbsent, exp |-> PyAbsent]]
GarbageToken == [kind |-> "garbage", alg |-> "", key |-> "",
                 claims |-> [sub |-> PyAbsent, exp |-> PyAbsent]]

\* datetime.timestamp() of a naive datetime: the wall-clock value is read as
\* host local time, so a naive value holding UTC wall-clock seconds w maps to
\* the epoch w - tz.
timestamp(naive, offset) == naive - offset

\* datetime.utcnow(): naive datetime holding the UTC wall clock
utcnow(utc) == utc

\* create_access_token without the str() of lines 28-30
create_access_token_KeepsSubType(data, expires_delta, utc, offset) ==
    LET delta == IF expires_delta # 0 THEN expires_delta
                 ELSE ACCESS_TOKEN_EXPIRE_MINUTES * 60
        expire == utcnow(utc) + delta
        to_encode == [k \in DOMAIN data \cup {"exp"} |->
                         IF k = "exp" THEN PyInt(timestamp(expire, offset))
                         ELSE data[k]]
    IN [kind |-> "jwt", alg |-> ALGORITHM, key |-> SECRET_KEY, claims |-> to_encode]

\* data always has the key sub (PyAbsent: not in the dict); the other keys
\* are the caller's own claims, with JSON values
create_access_token(data, expires_delta, utc, offset) ==
    LET sub == IF data.sub.t # "absent" /\ data.sub.t # "none"
               THEN str(data.sub) ELSE data.sub
        delta == IF expires_delta # 0 THEN expires_delta
                 ELSE ACCESS_TOKEN_EXPIRE_MINUTES * 60
        expire == utcnow(utc) + delta
        to_encode == [k \in DOMAIN data \cup {"exp"} |->
                         IF k = "exp" THEN PyInt(timestamp(expire, offset))
                         ELSE IF k = "sub" THEN sub
                         ELSE data[k]]
    IN [kind |-> "jwt", alg |-> ALGORITHM, key |-> SECRET_KEY, claims |-> to_encode]

\* a decode that does not verify the signature
jwt_decode_error_AnyKey(token, key, alg, utc) ==
    IF token.kind # "jwt" THEN "JWTError"
    ELSE IF token.alg # alg THEN "JWTError"
    ELSE IF token.claims.exp.t = "int" /\ token.claims.exp.i < utc
         THEN "ExpiredSignatureError"
    ELSE IF token.claims.sub.t \notin {"absent", "str"} THEN "JWTClaimsError"
    ELSE ""

\* a decode that accepts whatever algorithm the header names
jwt_decode_error_AnyAlg(token, key, alg, utc) ==
    IF token.kind # "jwt" THEN "JWTError"
    ELSE IF token.key # key THEN "JWTError"
    ELSE IF token.claims.exp.t = "int" /\ token.claims.exp.i < utc
         THEN "ExpiredSignatureError"
    ELSE IF token.claims.sub.t \notin {"absent", "str"} THEN "JWTClaimsError"
    ELSE ""

\* jose.jwt.decode(token, key, algorithms=[alg]) at true UTC time utc:
\* the exception it raises ("" when it returns the claims)
jwt_decode_error(token, key, alg, utc) ==
    IF token.kind # "jwt" THEN "JWTError"
    ELSE IF token.alg # alg THEN "JWTError"
    ELSE IF token.key # key THEN "JWTError"
    ELSE IF token.claims.exp.t = "int" /\ token.claims.exp.i < utc
         THEN "ExpiredSignatureError"
    ELSE IF token.claims.sub.t \notin {"absent", "str"} THEN "JWTClaimsError"
    ELSE ""

\* a verification that hands out the claims of an expired token
verify_access_token_KeepsExpired(token, utc) ==
    LET e == jwt_decode_error(token, SECRET_KEY, ALGORITHM, utc)
    IN IF e = "" THEN token.claims
       ELSE IF e = "ExpiredSignatureError" THEN token.claims
       ELSE PyNone

verify_access_token(token, utc) ==
    LET e == jwt_decode_error(token, SECRET_KEY, ALGORITHM, utc)
    IN IF e = "" THEN token.claims
       ELSE IF e = "ExpiredSignatureError" THEN PyNone
       ELSE PyNone

-----------------------------------------------------------------------------
(* The signature segment of the compact token (jose.jws, HS256) *)

\* the integer a numeric string stands for (0: none within the key range)
IdOf(x) == IF \E n \in 1..(MaxUsers + 1) : ToString(n) = x
           THEN CHOOSE n \in 1..(MaxUsers + 1) : ToString(n) = x
           ELSE 0

\* bytes of an HMAC-SHA256 digest
digest_size == 32

\* characters of the signature segment: ceil(8 * digest_size / 6)
SegmentLen == (8 * digest_size + 5) \div 6

\* A character of a segment is written as a number: 0..63 is a character of
\* the base64url alphabet (its 6-bit value), 64 one outside both alphabets,
\* 65 and 66 are "+" and "/", which urlsafe_b64decode reads as "-" and "_".
Chars == 0..66
B64Value(c) == IF c = 65 THEN 62 ELSE IF c = 66 THEN 63 ELSE c

Pow2(n) == 2 ^ n

\* stand-in for hmac.new(key, signing_input, sha256).digest(): digest_size
\* bytes fixed by the key, the header and the payload
KeySeed(key) == IF key = SECRET_KEY THEN 173 ELSE 89
HMAC(key, alg, claims) ==
    LET seed == KeySeed(key) + (IF alg = ALGORITHM THEN 0 ELSE 5)
                  + (IF claims.exp.t = "int" THEN claims.exp.i % 9973 ELSE 3)
                  + (IF claims.sub.t = "str" THEN 7 * IdOf(claims.sub.s) ELSE 1)
    IN [k \in 1..digest_size |-> (seed * (2 * k + 1) + 31 * k * k) % 256]

\* base64url_encode: 6 bits per character, no "=" padding; the bits of the
\* last character below the last byte are 0
base64url_encode(bytes) ==
    LET n == Len(bytes)
        at(j) == IF j <= n THEN bytes[j] ELSE 0
    IN [i \in 1..((8 * n + 5) \div 6) |->
           LET b == 6 * (i - 1)
               j == (b \div 8) + 1
           IN ((at(j) * 256 + at(j + 1)) \div Pow2(10 - (b % 8))) % 64]

\* base64url_decode: "=" padding is added, then base64.urlsafe_b64decode in
\* its lenient mode: the bits left over below the last whole byte are
\* dropped; a character outside the alphabets leaves a group short
\* (binascii.Error)
base64url_decode(seg) ==
    IF \E i \in 1..Len(seg) : seg[i] = 64 THEN [err |-> TRUE, bytes |-> <<>>]
    ELSE LET at(i) == IF i <= Len(seg) THEN B64Value(seg[i]) ELSE 0
         IN [err |-> FALSE,
             bytes |-> [j \in 1..((6 * Len(seg)) \div 8) |->
                          LET b == 8 * (j - 1)
                              i == (b \div 6) + 1
                          IN ((at(i) * 64 + at(i + 1)) \div Pow2(4 - (b % 6))) % 256]]

\* a comparison that leaves out the last byte of the digest
crypto_segment_matches_Truncated(token, seg, key) ==
    LET d == base64url_decode(seg)
        h == HMAC(key, token.alg, token.claims)
    IN ~d.err /\ Len(d.bytes) = Len(h)
              /\ \A j \in 1..(Len(h) - 1) : d.bytes[j] = h[j]

\* jws._sig_matches_keys: the decoded segment against the digest under key
crypto_segment_matches(token, seg, key) ==
    LET d == base64url_decode(seg)
    IN ~d.err /\ d.bytes = HMAC(key, token.alg, token.claims)

\* the third segment of what jwt.encode returns for the token
crypto_segment(token) == base64url_encode(HMAC(token.key, token.alg, token.claims))

\* the token a compact string amounts to, given the header and payload of
\* token and the signature segment seg: signed with the configured secret
\* when seg verifies under it, else signed with no key the server has
compact(token, seg) ==
    IF token.kind # "jwt" THEN token
    ELSE IF crypto_segment_matches(token, seg, SECRET_KEY)
    THEN [token EXCEPT !.key = SECRET_KEY]
    ELSE [token EXCEPT !.key = ""]

-----------------------------------------------------------------------------
(* CredentialPolicy: src/core/security.py *)

Lower == {"a", "b", "c", "d", "e", "f", "g", "h", "s", "t"}
Upper == {"A", "T"}
Digit == {"1", "2", "3"}
Special == {"!", "@", "#"}
Whitespace == {" "}

TestPassword == <<"T", "e", "s", "t", "1", "2", "3", "!", "@", "#">>
WrongPassword == <<"T", "e", "s", "t", "1", "2", "3", "!", "@", "!">>

\* a password is a sequence of characters; None is written as NoPassword,
\* whose one element is no character
NoPassword == <<"None">>
EmptyHash == [scheme |-> "", rounds |-> 0, secret |-> <<>>]

bcrypt__rounds == 12

\* bcrypt reads the first 72 bytes of the secret
bcrypt_max_bytes == 72

\* not password
Falsy(password) == password = NoPassword \/ Len(password) = 0

\* re.search(class, password)
HasChar(password, class) == \E k \in 1..Len(password) : password[k] \in class

\* validate_password_strength with the tests for a lowercase and an
\* uppercase letter in the other order
validate_password_strength_UpperFirst(password) ==
    IF Falsy(password) THEN <<FALSE, "La contrasena no puede estar vacia">>
    ELSE IF Len(password) < 8
         THEN <<FALSE, "La contrasena debe tener al menos 8 caracteres">>
    ELSE IF Len(password) > 128
         THEN <<FALSE, "La contrasena no puede exceder 128 caracteres">>
    ELSE IF ~HasChar(password, Upper)
         THEN <<FALSE, "La contrasena debe contener al menos una letra mayuscula">>
    ELSE IF ~HasChar(password, Lower)
         THEN <<FALSE, "La contrasena debe contener al menos una letra minuscula">>
    ELSE IF ~HasChar(password, Digit)
         THEN <<FALSE, "La contrasena debe contener al menos un numero">>
    ELSE IF ~HasChar(password, Special)
         THEN <<FALSE, "La contrasena debe contener al menos un caracter especial">>
    ELSE <<TRUE, "">>

\* <<es_valida, mensaje_error>>; "" is the None message
validate_password_strength(password) ==
    IF Falsy(password) THEN <<FALSE, "La contrasena no puede estar vacia">>
    ELSE IF Len(password) < 8
         THEN <<FALSE, "La contrasena debe tener al menos 8 caracteres">>
    ELSE IF Len(password) > 128
         THEN <<FALSE, "La contrasena no puede exceder 128 caracteres">>
    ELSE IF ~HasChar(password, Lower)
         THEN <<FALSE, "La contrasena debe contener al menos una letra minuscula">>
    ELSE IF ~HasChar(password, Upper)
         THEN <<FALSE, "La contrasena debe contener al menos una letra mayuscula">>
    ELSE IF ~HasChar(password, Digit)
         THEN <<FALSE, "La contrasena debe contener al menos un numero">>
    ELSE IF ~HasChar(password, Special)
         THEN <<FALSE, "La contrasena debe contener al menos un caracter especial">>
    ELSE <<TRUE, "">>

\* the part of a secret bcrypt reads
Truncated(secret) == SubSeq(secret, 1, IF Len(secret) < bcrypt_max_bytes
                                       THEN Len(secret) ELSE bcrypt_max_bytes)

\* pwd_context.hash(password): the hash, or the exception of a failing
\* primitive when fails
pwd_context_hash(password, fails) ==
    IF fails THEN [raised |-> "HashError", hash |-> EmptyHash]
    ELSE [raised |-> "",
          hash |-> [scheme |-> "bcrypt", rounds |-> bcrypt__rounds,
                    secret |-> Truncated(password)]]

\* pwd_context.verify(plain_password, hashed_password)
pwd_context_verify(plain_password, hashed_password) ==
    hashed_password.scheme = "bcrypt" /\ hashed_password.secret = Truncated(plain_password)

\* hash_password without the guard of line 77
hash_password_NoGuard(password, fails) ==
    LET h == pwd_context_hash(password, fails)
    IN [raised |-> h.raised, hash |-> h.hash, bcrypt |-> 1]

\* raised is the exception ("" when the hash is returned), bcrypt the number
\* of calls of pwd_context.hash made
hash_password(password, fails) ==
    IF Falsy(password) \/ \A k \in 1..Len(password) : password[k] \in Whitespace
    THEN [raised |-> "ValueError", hash |-> EmptyHash, bcrypt |-> 0]
    ELSE LET h == pwd_context_hash(password, fails)
         IN [raised |-> h.raised, hash |-> h.hash, bcrypt |-> 1]

\* a verification that compares the whole plaintext with what bcrypt kept
verify_password_WholeSecret(plain_password, hashed_password) ==
    IF Falsy(plain_password) \/ hashed_password = EmptyHash THEN FALSE
    ELSE hashed_password.scheme = "bcrypt" /\ hashed_password.secret = plain_password

verify_password(plain_password, hashed_password) ==
    IF Falsy(plain_password) \/ hashed_password = EmptyHash THEN FALSE
    ELSE pwd_context_verify(plain_password, hashed_password)

\* hash_password_with_validation without the validation
hash_password_with_validation_SkipsValidation(password, fails) ==
    LET h == hash_password(password, fails)
    IN IF h.raised = "ValueError"
       THEN [ret |-> <<EmptyHash, "Error al hashear la contrasena: La contrasena no puede estar vacia">>,
             bcrypt |-> h.bcrypt]
       ELSE IF h.raised # ""
       THEN [ret |-> <<EmptyHash, "Error al hashear la contrasena: HashError">>,
             bcrypt |-> h.bcrypt]
       ELSE [ret |-> <<h.hash, "">>, bcrypt |-> h.bcrypt]

\* hash_password_with_validation with an except clause that reports nothing
hash_password_with_validation_Swallows(password, fails) ==
    LET v == validate_password_strength(password)
        h == hash_password(password, fails)
    IN IF ~v[1] THEN [ret |-> <<EmptyHash, v[2]>>, bcrypt |-> 0]
       ELSE IF h.raised # "" THEN [ret |-> <<EmptyHash, "">>, bcrypt |-> h.bcrypt]
       ELSE [ret |-> <<h.hash, "">>, bcrypt |-> h.bcrypt]

\* hash_password_with_validation hashing before it validates
hash_password_with_validation_HashFirst(password, fails) ==
    LET v == validate_password_strength(password)
        h == hash_password(password, fails)
    IN IF ~v[1] THEN [ret |-> <<EmptyHash, v[2]>>, bcrypt |-> h.bcrypt]
       ELSE IF h.raised = "ValueError"
       THEN [ret |-> <<EmptyHash, "Error al hashear la contrasena: La contrasena no puede estar vacia">>,
             bcrypt |-> h.bcrypt]
       ELSE IF h.raised # ""
       THEN [ret |-> <<EmptyHash, "Error al hashear la contrasena: HashError">>,
             bcrypt |-> h.bcrypt]
       ELSE [ret |-> <<h.hash, "">>, bcrypt |-> h.bcrypt]

\* ret is <<hash, mensaje_error>> (EmptyHash is "", "" is the None message),
\* bcrypt the number of calls of pwd_context.hash made
hash_password_with_validation(password, fails) ==
    LET v == validate_password_strength(password)
        h == hash_password(password, fails)
    IN IF ~v[1] THEN [ret |-> <<EmptyHash, v[2]>>, bcrypt |-> 0]
       ELSE IF h.raised = "ValueError"
       THEN [ret |-> <<EmptyHash, "Error al hashear la contrasena: La contrasena no puede estar vacia">>,
             bcrypt |-> h.bcrypt]
       ELSE IF h.raised # ""
       THEN [ret |-> <<EmptyHash, "Error al hashear la contrasena: HashError">>,
             bcrypt |-> h.bcrypt]
       ELSE [ret |-> <<h.hash, "">>, bcrypt |-> h.bcrypt]

-----------------------------------------------------------------------------
(* RepositoryContract: UserRepository *)

NoRow == [id |-> 0, email |-> "", hashed_password |-> EmptyHash, is_active |-> FALSE]

\* result.scalar_one_or_none() over the rows a query selects
scalar_one_or_none(rows) == IF rows = {} THEN NoRow ELSE CHOOSE u \in rows : TRUE

\* select(User).where(User.id == user_id).  The INTEGER column is compared
\* with the Python value as bound: an int is matched directly; for a str the
\* outcome is the DBAPI driver's: it either refuses the bind (asyncpg:
\* DataError, surfacing as DBAPIError) or lets the server read it as a number.
get_by_id(db, user_id, coerces) ==
    IF user_id.t = "int"
    THEN [err |-> FALSE, row |-> scalar_one_or_none({u \in db : u.id = user_id.i})]
    ELSE IF user_id.t = "str" /\ coerces /\ IdOf(user_id.s) # 0
    THEN [err |-> FALSE, row |-> scalar_one_or_none({u \in db : u.id = IdOf(user_id.s)})]
    ELSE [err |-> TRUE, row |-> NoRow]

\* the row of the given id in db, NoRow when there is none
RowOf(db, id) == IF \E u \in db : u.id = id THEN CHOOSE u \in db : u.id = id ELSE NoRow

get_by_email(db, email) == scalar_one_or_none({u \in db : u.email = email})

\* db.add(User(**user_data)); commit, with no check of the unique index on
\* email
create_NoUniqueIndex(db, id, user_data) ==
    [err |-> FALSE,
     db |-> db \cup {[id |-> id, email |-> user_data.email,
                      hashed_password |-> user_data.hashed_password,
                      is_active |-> user_data.is_active]}]

\* db.add(User(**user_data)); commit; refresh.  users.email is unique: the
\* commit of a second row with the same email raises IntegrityError
create(db, id, user_data) ==
    IF \E u \in db : u.email = user_data.email
    THEN [err |-> TRUE, db |-> db]
    ELSE [err |-> FALSE,
          db |-> db \cup {[id |-> id, email |-> user_data.email,
                           hashed_password |-> user_data.hashed_password,
                           is_active |-> user_data.is_active]}]

PyBool(b) == [t |-> "bool", b |-> b]
PyHash(h) == [t |-> "hash", h |-> h]

\* update_data: PyAbsent for a key that is not in the dict
NoUpdate == [email |-> PyAbsent, hashed_password |-> PyAbsent, is_active |-> PyAbsent]

\* update that sets the columns left out of update_data to their defaults
Merged_Overwrites(u, update_data) ==
    [id |-> u.id,
     email |-> IF update_data.email = PyAbsent THEN u.email ELSE update_data.email.s,
     hashed_password |-> IF update_data.hashed_password = PyAbsent THEN EmptyHash
                         ELSE update_data.hashed_password.h,
     is_active |-> IF update_data.is_active = PyAbsent THEN TRUE
                   ELSE update_data.is_active.b]

\* the row with the values of update_data set
Merged(u, update_data) ==
    [id |-> u.id,
     email |-> IF update_data.email = PyAbsent THEN u.email ELSE update_data.email.s,
     hashed_password |-> IF update_data.hashed_password = PyAbsent THEN u.hashed_password
                         ELSE update_data.hashed_password.h,
     is_active |-> IF update_data.is_active = PyAbsent THEN u.is_active
                   ELSE update_data.is_active.b]

\* update(User).where(User.id == user_id).values(**update_data); commit.
\* An email another row has raises IntegrityError
update(db, user_id, update_data) ==
    IF /\ update_data.email # PyAbsent
       /\ \E u \in db : u.id = user_id
       /\ \E u \in db : u.id # user_id /\ u.email = update_data.email.s
    THEN [err |-> TRUE, db |-> db]
    ELSE [err |-> FALSE,
          db |-> {IF u.id = user_id THEN Merged(u, update_data) ELSE u : u \in db}]

\* select(User).where(User.email == email, User.id != user_id)
exists_by_email_excluding_id(db, email, user_id) ==
    scalar_one_or_none({u \in db : u.email = email /\ u.id # user_id}) # NoRow

\* update(User).where(User.id == user_id).values(is_active=...)
update_is_active(db, user_id, value) ==
    {IF u.id = user_id THEN [u EXCEPT !.is_active = value] ELSE u : u \in db}

delete(db, user_id) == {u \in db : u.id # user_id}

-----------------------------------------------------------------------------
(* Outcomes of a call: a returned value or a raised exception *)

NoResult == [exc |-> "", status |-> 0, detail |-> "", challenge |-> FALSE, user |-> NoRow]

\* raise HTTPException(status_code, detail, headers={"WWW-Authenticate": "Bearer"})
HTTPException(status, detail, challenge) ==
    [exc |-> "HTTPException", status |-> status, detail |-> detail,
     challenge |-> challenge, user |-> NoRow]

\* an exception that is not an HTTPException: the server answers 500
ServerError(name) ==
    [exc |-> name, status |-> 500, detail |-> "Internal Server Error",
     challenge |-> FALSE, user |-> NoRow]

\* return user (None is NoRow)
Return(user) == [exc |-> "", status |-> 200, detail |-> "", challenge |-> FALSE, user |-> user]

-----------------------------------------------------------------------------
(* IdentityResolver: src/core/auth.py *)

\* security = HTTPBearer(): auto_error defaults to True
auto_error == TRUE

\* HTTPBearer.__call__: with no Authorization header it raises when
\* auto_error, with the status of the installed FastAPI (403, or 401 with a
\* Bearer challenge), else hands None to the dependant.
security(header, status) ==
    IF header.kind # "none" THEN [raised |-> FALSE, exc |-> NoResult, credentials |-> header]
    ELSE IF auto_error
    THEN [raised |-> TRUE, exc |-> HTTPException(status, "Not authenticated", status = 401),
          credentials |-> NoToken]
    ELSE [raised |-> FALSE, exc |-> NoResult, credentials |-> NoToken]

\* get_current_user, lines 36-42: verify the token
CheckToken(payload) ==
    IF payload = PyNone
    THEN HTTPException(401, "Token invalido o expirado", TRUE)
    ELSE NoResult

\* get_current_user, lines 45-51: the subject
CheckSubject(user_id) ==
    IF user_id.t \in {"absent", "none"}
    THEN HTTPException(401, "Token invalido: falta ID de usuario", TRUE)
    ELSE NoResult

\* the checks on the row without the one on is_active
CheckUser_SkipsActive(user) ==
    IF user = NoRow THEN HTTPException(401, "Usuario no encontrado", TRUE)
    ELSE Return(user)

\* get_current_user, lines 57-71: the principal read from the store
CheckUser(user) ==
    IF user = NoRow THEN HTTPException(401, "Usuario no encontrado", TRUE)
    ELSE IF ~user.is_active THEN HTTPException(401, "Usuario inactivo", TRUE)
    ELSE Return(user)

\* get_current_active_user: runs on the value get_current_user returned
get_current_active_user(outcome) ==
    IF outcome.exc # "" THEN outcome
    ELSE IF ~outcome.user.is_active THEN HTTPException(400, "Usuario inactivo", FALSE)
    ELSE Return(outcome.user)

\* get_current_user_optional, lines 112-115: except HTTPException: return None
get_current_user_optional(outcome) ==
    IF outcome.exc = "HTTPException" THEN Return(NoRow) ELSE outcome

\* what the dependant of the given mode makes of get_current_user's outcome
Resolve(mode, outcome) ==
    IF mode = "active" THEN get_current_active_user(outcome)
    ELSE IF mode = "optional" THEN get_current_user_optional(outcome)
    ELSE outcome

-----------------------------------------------------------------------------
(* State *)

\* data is the dict create_access_token was called with
NoHeld == [status |-> 0, token |-> NoToken, iat |-> 0, delta |-> 0, uid |-> 0,
           data |-> [sub |-> PyAbsent]]

\* inner is the outcome of get_current_user, result what the endpoint's
\* dependency made of it.  History of the request: verified records whether
\* the presented token was correctly signed and unexpired when it was
\* verified, queried whether the store was read, matched the rows whose id
\* had the subject's string form at that read.
IdleReq == [pc |-> "idle", mode |-> "required", header |-> NoToken,
            credentials |-> NoToken, payload |-> PyNone, user_id |-> PyNone,
            user |-> NoRow, inner |-> NoResult, result |-> NoResult,
            queried |-> FALSE, verified |-> FALSE, matched |-> {}]

\* the token carries a signature made with the configured secret and
\* algorithm, and its exp is not before time t
SignedAndFresh(token, t) ==
    /\ token.kind = "jwt"
    /\ token.key = SECRET_KEY
    /\ token.alg = ALGORITHM
    /\ token.claims.exp.t = "int" => token.claims.exp.i >= t

\* no function of security.py has been called directly
NoProbe == [fn |-> ""]

Workers == {1, 2}

\* no UserService call is in flight
NoCall == [pc |-> "idle"]
NoCalls == [w \in Workers |-> NoCall]

Modes == {"required", "active", "optional"}

\* the claim sets create_access_token is called with
ClaimSets == {[sub |-> PyInt(n)] : n \in 1..MaxUsers}
                 \cup {[sub |-> PyAbsent], [sub |-> PyNone]}

\* the same token signed with a key that is not the configured secret
Forged(token) == [token EXCEPT !.key = "attacker-key"]

\* what a client can put in the Authorization header: nothing, the token it
\* holds, a forgery of it, or a string that is no JWT
Headers == {NoToken, GarbageToken}
               \cup (IF held.token.kind = "jwt" THEN {held.token, Forged(held.token)} ELSE {})

Init ==
    /\ now = 0
    /\ tz \in TZOffsets
    /\ users = {}
    /\ nextId = 1
    /\ held = NoHeld
    /\ req = IdleReq
    /\ probe = NoProbe
    /\ svc = NoCalls

-----------------------------------------------------------------------------
(* The clock *)

\* a step of the clock is far longer than a request: none in mid-request
Tick ==
    /\ req.pc = "idle"
    /\ now + TickSeconds <= MaxTime
    /\ now' = now + TickSeconds
    /\ UNCHANGED <<probe, svc, tz, users, nextId, held, req>>

-----------------------------------------------------------------------------
(* UserService: src/user/services/user_service.py *)

\* register_user: unique email, validate and hash, create
register_user(email, password, is_active) ==
    /\ req.pc # "done"
    /\ nextId <= MaxUsers
    /\ get_by_email(users, email) = NoRow
    /\ \E fails \in BOOLEAN :
          LET hv == hash_password_with_validation(password, fails).ret
          IN /\ hv[2] = ""
             /\ users' = create(users, nextId,
                                [email |-> email, hashed_password |-> hv[1],
                                 is_active |-> is_active]).db
    /\ nextId' = nextId + 1
    /\ UNCHANGED <<probe, svc, now, tz, held, req>>

\* toggle_user_status: get_user_by_id, then update is_active to its negation
toggle_user_status(user_id) ==
    /\ req.pc # "done"
    /\ \E u \in users :
          /\ u.id = user_id
          /\ users' = update_is_active(users, user_id, ~u.is_active)
    /\ UNCHANGED <<probe, svc, now, tz, nextId, held, req>>

\* soft_delete_user: 400 when already inactive, else update is_active to False
soft_delete_user(user_id) ==
    /\ req.pc # "done"
    /\ \E u \in users :
          /\ u.id = user_id
          /\ u.is_active
          /\ users' = update_is_active(users, user_id, FALSE)
    /\ UNCHANGED <<probe, svc, now, tz, nextId, held, req>>

\* hard_delete_user: get_user_by_id, then delete
hard_delete_user(user_id) ==
    /\ req.pc # "done"
    /\ \E u \in users : u.id = user_id
    /\ users' = delete(users, user_id)
    /\ UNCHANGED <<probe, svc, now, tz, nextId, held, req>>

-----------------------------------------------------------------------------
(* Login: src/user/routers/auth_router.py *)

\* authenticate_user without the check of is_active
authenticate_user_SkipsActive(email, password, db) ==
    LET user == get_by_email(db, email)
    IN IF user = NoRow THEN NoRow
       ELSE IF ~verify_password(password, user.hashed_password) THEN NoRow
       ELSE user

authenticate_user(email, password, db) ==
    LET user == get_by_email(db, email)
    IN IF user = NoRow THEN NoRow
       ELSE IF ~verify_password(password, user.hashed_password) THEN NoRow
       ELSE IF ~user.is_active THEN NoRow
       ELSE user

LoginRejected == [status |-> 401, token |-> NoToken, iat |-> 0, delta |-> 0, uid |-> 0,
                  data |-> [sub |-> PyAbsent]]

\* POST /auth/login.  The handler writes last_login_at = timedelta() before
\* it answers; whether the column takes that value is decided by the User
\* model and the driver, so the write either passes or raises (500, no token
\* delivered).
login(email, password) ==
    /\ req.pc = "idle"
    /\ LET user == authenticate_user(email, password, users)
       IN IF user = NoRow
          THEN held' = LoginRejected
          ELSE \E written \in BOOLEAN :
                  held' = IF written
                          THEN [status |-> 200,
                                token |-> create_access_token(
                                              [sub |-> PyInt(user.id)],
                                              ACCESS_TOKEN_EXPIRE_MINUTES * 60, now, tz),
                                iat |-> now,
                                delta |-> ACCESS_TOKEN_EXPIRE_MINUTES * 60,
                                uid |-> user.id,
                                data |-> [sub |-> PyInt(user.id)]]
                          ELSE [status |-> 500, token |-> NoToken, iat |-> 0,
                                delta |-> 0, uid |-> user.id,
                                data |-> [sub |-> PyAbsent]]
    /\ held' # held
    /\ UNCHANGED <<probe, svc, now, tz, users, nextId, req>>

\* POST /auth/login-json: the same without the last_login_at write
login_json(email, password) ==
    /\ req.pc = "idle"
    /\ LET user == authenticate_user(email, password, users)
       IN IF user = NoRow
          THEN held' = LoginRejected
          ELSE held' = [status |-> 200,
                        token |-> create_access_token(
                                      [sub |-> PyInt(user.id)],
                                      ACCESS_TOKEN_EXPIRE_MINUTES * 60, now, tz),
                        iat |-> now,
                        delta |-> ACCESS_TOKEN_EXPIRE_MINUTES * 60,
                        uid |-> user.id,
                        data |-> [sub |-> PyInt(user.id)]]
    /\ held' # held
    /\ UNCHANGED <<probe, svc, now, tz, users, nextId, req>>

\* a direct call of create_access_token(data, expires_delta)
IssueToken(data, expires_delta) ==
    /\ req.pc = "idle"
    /\ held' = [status |-> 200,
                token |-> create_access_token(data, expires_delta, now, tz),
                iat |-> now,
                delta |-> IF expires_delta # 0 THEN expires_delta
                          ELSE ACCESS_TOKEN_EXPIRE_MINUTES * 60,
                uid |-> 0,
                data |-> data]
    /\ held' # held
    /\ UNCHANGED <<probe, svc, now, tz, users, nextId, req>>

-----------------------------------------------------------------------------
(* One request through the resolver.  The code between two awaits runs     *)
(* without interleaving: the dependency chain up to the query is one step, *)
(* the query with the checks on the row it returned is the next.           *)

Done(r, outcome) ==
    [r EXCEPT !.pc = "done", !.inner = outcome, !.result = Resolve(r.mode, outcome)]

\* get_current_user, lines 33-55: token, subject, then the query is sent
Begin(r, utc) ==
    LET payload == verify_access_token(r.credentials, utc)
        r1 == [r EXCEPT !.payload = payload,
                        !.verified = SignedAndFresh(r.credentials, utc)]
    IN IF CheckToken(payload).exc # "" THEN Done(r1, CheckToken(payload))
       ELSE LET user_id == payload.sub
                r2 == [r1 EXCEPT !.user_id = user_id]
            IN IF CheckSubject(user_id).exc # "" THEN Done(r2, CheckSubject(user_id))
               ELSE [r2 EXCEPT !.pc = "lookup"]

\* a request arrives at an endpoint whose dependency is the resolver of the
\* given mode: Depends(security) extracts the credentials, then the
\* resolver's body runs
Request(mode, header) ==
    /\ req.pc = "idle"
    /\ \E status \in {401, 403} :
          LET s == security(header, status)
              r == [IdleReq EXCEPT !.mode = mode, !.header = header,
                                   !.credentials = s.credentials]
          IN req' = IF s.raised
                    THEN [r EXCEPT !.pc = "done", !.inner = s.exc, !.result = s.exc]
                    ELSE IF s.credentials = NoToken
                    THEN IF mode = "optional"
                         THEN [r EXCEPT !.pc = "done", !.result = Return(NoRow)]
                         ELSE [r EXCEPT !.pc = "done",
                                        !.result = ServerError("AttributeError")]
                    ELSE Begin(r, now)
    /\ UNCHANGED <<probe, svc, now, tz, users, nextId, held>>

\* user = await user_repository.get_by_id(user_id), and lines 57-71 on the
\* row it returned
Lookup ==
    /\ req.pc = "lookup"
    /\ \E coerces \in BOOLEAN :
          LET g == get_by_id(users, req.user_id, coerces)
              r == [req EXCEPT !.queried = TRUE, !.user = g.row,
                               !.matched = {u \in users : str(PyInt(u.id)) = req.user_id}]
          IN req' = IF g.err THEN Done(r, ServerError("DBAPIError"))
                    ELSE Done(r, CheckUser(g.row))
    /\ UNCHANGED <<probe, svc, now, tz, users, nextId, held>>

\* the response is sent
Respond ==
    /\ req.pc = "done"
    /\ req' = IdleReq
    /\ UNCHANGED <<probe, svc, now, tz, users, nextId, held>>

-----------------------------------------------------------------------------

Next ==
    \/ Tick
    \/ \E email \in Emails, is_active \in BOOLEAN :
          register_user(email, TestPassword, is_active)
    \/ \E user_id \in 1..MaxUsers : toggle_user_status(user_id)
    \/ \E user_id \in 1..MaxUsers : soft_delete_user(user_id)
    \/ \E user_id \in 1..MaxUsers : hard_delete_user(user_id)
    \/ \E email \in Emails, password \in {TestPassword, WrongPassword} :
          login(email, password)
    \/ \E email \in Emails, password \in {TestPassword, WrongPassword} :
          login_json(email, password)
    \/ \E data \in ClaimSets, expires_delta \in Deltas : IssueToken(data, expires_delta)
    \/ \E mode \in Modes, header \in Headers : Request(mode, header)
    \/ Lookup
    \/ Respond

Spec == Init /\ [][Next]_vars

-----------------------------------------------------------------------------
(* TokenService called directly: tokens are issued, time passes, and a     *)
(* token is handed to verify_access_token as issued, altered in one        *)
(* character of its signature segment, forged, or with another algorithm   *)
(* in its header.                                                          *)

\* the dicts create_access_token is called with: sub of every kind, with
\* and without claims of the caller's own
TokenClaimSets ==
    ClaimSets
        \cup {[sub |-> PyInt(n), role |-> PyStr("admin"), tenant |-> PyInt(7)] :
                  n \in 1..MaxUsers}
        \cup {[sub |-> PyStr("1"), role |-> PyNone]}

\* the same token with another algorithm named in its header
WrongAlg(token) == [token EXCEPT !.alg = "HS512"]

\* the strings a caller can hand to verify_access_token
Presentable == Headers \cup (IF held.token.kind = "jwt" THEN {WrongAlg(held.token)} ELSE {})

\* verify_access_token(token) on the compact string of token
VerifyToken(token) ==
    /\ probe = NoProbe
    /\ token # NoToken
    /\ probe' = [fn |-> "verify_access_token", token |-> token,
                 seg |-> crypto_segment(token), pos |-> 0, at |-> now,
                 out |-> verify_access_token(compact(token, crypto_segment(token)), now)]
    /\ UNCHANGED <<now, tz, users, nextId, held, req, svc>>

\* verify_access_token on the held token, valid and unexpired, with the
\* character at position pos of its signature segment replaced by the
\* different character ch
VerifyTampered(pos, ch) ==
    /\ probe = NoProbe
    /\ held.token.kind = "jwt"
    /\ verify_access_token(held.token, now) # PyNone
    /\ ch # crypto_segment(held.token)[pos]
    /\ LET seg == [crypto_segment(held.token) EXCEPT ![pos] = ch]
       IN probe' = [fn |-> "verify_access_token", token |-> held.token,
                    seg |-> seg, pos |-> pos, at |-> now,
                    out |-> verify_access_token(compact(held.token, seg), now)]
    /\ UNCHANGED <<now, tz, users, nextId, held, req, svc>>

\* the call has returned
Forget ==
    /\ probe # NoProbe
    /\ probe' = NoProbe
    /\ UNCHANGED <<now, tz, users, nextId, held, req, svc>>

TokenNext ==
    \/ probe = NoProbe /\ Tick
    \/ \E data \in TokenClaimSets, expires_delta \in Deltas :
          probe = NoProbe /\ IssueToken(data, expires_delta)
    \/ \E token \in Presentable : VerifyToken(token)
    \/ Forget

TokenSpec == Init /\ [][TokenNext]_vars

TamperNext ==
    \/ probe = NoProbe /\ Tick
    \/ \E data \in ClaimSets, expires_delta \in Deltas :
          probe = NoProbe /\ IssueToken(data, expires_delta)
    \/ probe = NoProbe /\ \E pos \in 1..SegmentLen, ch \in Chars : VerifyTampered(pos, ch)
    \/ Forget

TamperSpec == Init /\ [][TamperNext]_vars

-----------------------------------------------------------------------------
(* CredentialPolicy called directly on passwords of every shape            *)

\* one character of each class, a blank, and one of no class
PwChars == {"a", "T", "1", "!", " ", "_"}

\* the characters a long password is filled up with
PadChars == {"a", " ", "_"}

\* lengths around the limits of the policy and of bcrypt
PwLengths == {8 - 1, 8, bcrypt_max_bytes, bcrypt_max_bytes + 1, 128, 128 + 1}

\* base followed by copies of c up to length n
Pad(base, n, c) == [i \in 1..n |-> IF i <= Len(base) THEN base[i] ELSE c]

Bases == UNION {[1..k -> PwChars] : k \in 0..MaxBase}

Passwords ==
    {NoPassword, TestPassword, <<"a", "b", "c", "d", "e", "f", "g", "h">>}
        \cup Bases
        \cup {Pad(b, n, c) : b \in Bases, n \in PwLengths, c \in PadChars}

ValidatePassword(password) ==
    /\ probe = NoProbe
    /\ probe' = [fn |-> "validate_password_strength", password |-> password,
                 out |-> validate_password_strength(password)]
    /\ UNCHANGED <<now, tz, users, nextId, held, req, svc>>

HashPassword(password, fails) ==
    /\ probe = NoProbe
    /\ probe' = [fn |-> "hash_password", password |-> password, fails |-> fails,
                 out |-> hash_password(password, fails)]
    /\ UNCHANGED <<now, tz, users, nextId, held, req, svc>>

\* verify_password(plain, hash_password(password))
VerifyPassword(plain, password) ==
    /\ probe = NoProbe
    /\ hash_password(password, FALSE).raised = ""
    /\ probe' = [fn |-> "verify_password", password |-> password, plain |-> plain,
                 hashed |-> hash_password(password, FALSE).hash,
                 out |-> verify_password(plain, hash_password(password, FALSE).hash)]
    /\ UNCHANGED <<now, tz, users, nextId, held, req, svc>>

HashPasswordWithValidation(password, fails) ==
    /\ probe = NoProbe
    /\ probe' = [fn |-> "hash_password_with_validation", password |-> password,
                 fails |-> fails,
                 out |-> hash_password_with_validation(password, fails)]
    /\ UNCHANGED <<now, tz, users, nextId, held, req, svc>>

PasswordNext ==
    \/ probe = NoProbe /\ \E password \in Passwords : ValidatePassword(password)
    \/ probe = NoProbe /\ \E password \in Passwords, fails \in BOOLEAN :
                             HashPassword(password, fails)
    \/ probe = NoProbe /\ \E password \in Passwords :
                             \E plain \in {password, WrongPassword, <<>>} :
                                VerifyPassword(plain, password)
    \/ probe = NoProbe /\ \E password \in Passwords, fails \in BOOLEAN :
                             HashPasswordWithValidation(password, fails)
    \/ Forget

\* the host's time zone plays no part here
PasswordInit == Init /\ tz = 0

PasswordSpec == PasswordInit /\ [][PasswordNext]_vars

-----------------------------------------------------------------------------
(* UserService under concurrent requests.  Each worker runs one call of    *)
(* register_user or update_user; a call gives way to the others at every   *)
(* await, that is at every statement it sends to the database.             *)

WeakPassword == <<"a", "b", "c", "d", "e", "f", "g", "h">>

\* UserCreateSchema values
RegisterData ==
    {[email |-> e, password |-> p, is_active |-> TRUE] :
        e \in Emails, p \in {TestPassword, WeakPassword}}

\* UserUpdateSchema values: PyNone / NoPassword for a field left out
UpdateData ==
    {[email |-> e, password |-> p, is_active |-> a] :
        e \in {PyNone} \cup {PyStr(x) : x \in Emails},
        p \in {NoPassword, WrongPassword, WeakPassword},
        a \in {PyNone, PyBool(FALSE)}}

\* the call has ended with the given outcome.  hv is what
\* hash_password_with_validation returned in it (<<>>: not called),
\* hashfail whether pwd_context.hash raised in it, wrote whether it changed
\* the table.
Ended(op, outcome, hv, hashfail, wrote) ==
    [pc |-> "done", op |-> op, result |-> outcome, hv |-> hv,
     hashfail |-> hashfail, wrote |-> wrote]

\* the calls that hold a place in the table for the row they will insert
Creating == {w \in Workers : svc[w].pc = "create"}

\* register_user that inserts the row at the lookup, before the password is
\* validated and hashed
register_user_get_by_email_InsertsFirst(w, user_data) ==
    /\ svc[w].pc = "idle"
    /\ nextId + Cardinality(Creating) <= MaxUsers
    /\ svc' = [svc EXCEPT ![w] =
                  IF get_by_email(users, user_data.email) # NoRow
                  THEN Ended("register_user",
                             HTTPException(400, "El email ya esta registrado", FALSE),
                             <<>>, FALSE, FALSE)
                  ELSE [pc |-> "create", op |-> "register_user", user_data |-> user_data]]
    /\ users' = IF get_by_email(users, user_data.email) # NoRow THEN users
                 ELSE create(users, nextId,
                             [email |-> user_data.email, hashed_password |-> EmptyHash,
                              is_active |-> user_data.is_active]).db
    /\ nextId' = IF users' = users THEN nextId ELSE nextId + 1
    /\ UNCHANGED <<now, tz, held, req, probe>>

\* register_user, lines 17-22: await get_by_email
register_user_get_by_email(w, user_data) ==
    /\ svc[w].pc = "idle"
    /\ nextId + Cardinality(Creating) <= MaxUsers
    /\ svc' = [svc EXCEPT ![w] =
                  IF get_by_email(users, user_data.email) # NoRow
                  THEN Ended("register_user",
                             HTTPException(400, "El email ya esta registrado", FALSE),
                             <<>>, FALSE, FALSE)
                  ELSE [pc |-> "create", op |-> "register_user", user_data |-> user_data]]
    /\ UNCHANGED <<now, tz, users, nextId, held, req, probe>>

\* register_user, lines 25-41: hash, then await create
register_user_create(w) ==
    /\ svc[w].pc = "create"
    /\ \E fails \in BOOLEAN :
          LET user_data == svc[w].user_data
              hv == hash_password_with_validation(user_data.password, fails)
              hashfail == fails /\ hv.bcrypt > 0
              c == create(users, nextId,
                          [email |-> user_data.email, hashed_password |-> hv.ret[1],
                           is_active |-> user_data.is_active])
          IN IF hv.ret[2] # ""
             THEN /\ svc' = [svc EXCEPT ![w] =
                               Ended("register_user", HTTPException(400, hv.ret[2], FALSE),
                                     hv.ret, hashfail, FALSE)]
                  /\ UNCHANGED <<users, nextId>>
             ELSE IF c.err
             THEN /\ svc' = [svc EXCEPT ![w] =
                               Ended("register_user", ServerError("IntegrityError"),
                                     hv.ret, hashfail, FALSE)]
                  /\ nextId' = nextId + 1
                  /\ UNCHANGED users
             ELSE /\ svc' = [svc EXCEPT ![w] =
                               Ended("register_user",
                                     Return(CHOOSE u \in c.db : u.id = nextId),
                                     hv.ret, hashfail, TRUE)]
                  /\ nextId' = nextId + 1
                  /\ users' = c.db
    /\ UNCHANGED <<now, tz, held, req, probe>>

\* update_user, lines 111-137 up to the await of update: the password, then
\* is_active, then the empty dict
PrepareUpdate(c, update_data, fails) ==
    LET user_data == c.user_data
        hv == hash_password_with_validation(user_data.password, fails)
        hashfail == fails /\ hv.bcrypt > 0
        d1 == IF user_data.password = NoPassword THEN update_data
              ELSE [update_data EXCEPT !.hashed_password = PyHash(hv.ret[1])]
        d2 == IF user_data.is_active = PyNone THEN d1
              ELSE [d1 EXCEPT !.is_active = user_data.is_active]
    IN IF user_data.password # NoPassword /\ hv.ret[2] # ""
       THEN Ended("update_user", HTTPException(400, hv.ret[2], FALSE),
                  hv.ret, hashfail, FALSE)
       ELSE IF d2 = NoUpdate
       THEN Ended("update_user", Return(c.existing_user), <<>>, FALSE, FALSE)
       ELSE [pc |-> "update", op |-> "update_user", user_id |-> c.user_id,
             update_data |-> d2,
             hv |-> IF user_data.password = NoPassword THEN <<>> ELSE hv.ret]

\* update_user, lines 87-101: await get_user_by_id
update_user_get_user_by_id(w, user_id, user_data) ==
    /\ svc[w].pc = "idle"
    /\ \E fails \in BOOLEAN :
          LET existing_user == get_by_id(users, PyInt(user_id), FALSE).row
              c == [pc |-> "exists", op |-> "update_user", user_id |-> user_id,
                    user_data |-> user_data, existing_user |-> existing_user]
          IN svc' = [svc EXCEPT ![w] =
                       IF existing_user = NoRow
                       THEN Ended("update_user",
                                  HTTPException(404, "Usuario no encontrado", FALSE),
                                  <<>>, FALSE, FALSE)
                       ELSE IF user_data.email # PyNone THEN c
                       ELSE PrepareUpdate(c, NoUpdate, fails)]
    /\ UNCHANGED <<now, tz, users, nextId, held, req, probe>>

\* update_user, lines 102-109: await exists_by_email_excluding_id
update_user_exists_by_email(w) ==
    /\ svc[w].pc = "exists"
    /\ \E fails \in BOOLEAN :
          LET c == svc[w]
          IN svc' = [svc EXCEPT ![w] =
                       IF exists_by_email_excluding_id(users, c.user_data.email.s, c.user_id)
                       THEN Ended("update_user",
                                  HTTPException(400, "El email ya esta registrado", FALSE),
                                  <<>>, FALSE, FALSE)
                       ELSE PrepareUpdate(c, [NoUpdate EXCEPT !.email = c.user_data.email],
                                          fails)]
    /\ UNCHANGED <<now, tz, users, nextId, held, req, probe>>

\* UserRepository.update, lines 61-66: the UPDATE and its commit
update_user_update(w) ==
    /\ svc[w].pc = "update"
    /\ LET c == svc[w]
           r == update(users, c.user_id, c.update_data)
       IN IF r.err
          THEN /\ svc' = [svc EXCEPT ![w] =
                            Ended("update_user", ServerError("IntegrityError"),
                                  c.hv, FALSE, FALSE)]
               /\ UNCHANGED users
          ELSE /\ svc' = [svc EXCEPT ![w] =
                            [pc |-> "reread", op |-> "update_user",
                             user_id |-> c.user_id, hv |-> c.hv]]
               /\ users' = r.db
    /\ UNCHANGED <<now, tz, nextId, held, req, probe>>

\* UserRepository.update, line 69, and update_user, lines 131-137
update_user_get_by_id(w) ==
    /\ svc[w].pc = "reread"
    /\ LET c == svc[w]
           updated_user == get_by_id(users, PyInt(c.user_id), FALSE).row
       IN svc' = [svc EXCEPT ![w] =
                    IF updated_user = NoRow
                    THEN Ended("update_user",
                               HTTPException(500, "Error al actualizar usuario", FALSE),
                               c.hv, FALSE, TRUE)
                    ELSE Ended("update_user", Return(updated_user), c.hv, FALSE, TRUE)]
    /\ UNCHANGED <<now, tz, users, nextId, held, req, probe>>

\* the request is cancelled while the call waits at an await: CancelledError
\* is raised there and nothing after it runs
Cancelled ==
    [exc |-> "CancelledError", status |-> 0, detail |-> "", challenge |-> FALSE,
     user |-> NoRow]

\* register_user is cancelled before create has committed (lines 17, 41),
\* update_user before update has committed (lines 87, 102, 130)
Abandon(w) ==
    /\ svc[w].pc \in {"create", "exists", "update"}
    /\ svc' = [svc EXCEPT ![w] = Ended(svc[w].op, Cancelled, <<>>, FALSE, FALSE)]
    /\ UNCHANGED <<now, tz, users, nextId, held, req, probe>>

\* the response of the call is sent
ServiceReturn(w) ==
    /\ svc[w].pc = "done"
    /\ svc' = [svc EXCEPT ![w] = NoCall]
    /\ UNCHANGED <<now, tz, users, nextId, held, req, probe>>

StoreNext ==
    \/ \E w \in Workers, user_data \in RegisterData : register_user_get_by_email(w, user_data)
    \/ \E w \in Workers : register_user_create(w)
    \/ \E w \in Workers, user_id \in 1..MaxUsers, user_data \in UpdateData :
          update_user_get_user_by_id(w, user_id, user_data)
    \/ \E w \in Workers : update_user_exists_by_email(w)
    \/ \E w \in Workers : update_user_update(w)
    \/ \E w \in Workers : update_user_get_by_id(w)
    \/ \E w \in Workers : Abandon(w)
    \/ \E w \in Workers : ServiceReturn(w)

StoreInit == Init /\ tz = 0

StoreSpec == StoreInit /\ [][StoreNext]_vars

-----------------------------------------------------------------------------
(* UserRepository called directly by one caller: each method runs to its   *)
(* return before the next is called.                                       *)

\* the updated_at column of the rows (NULL, PyNone, until the first UPDATE
\* of the row), kept beside the rows of users
NoStamps == [i \in 1..MaxUsers |-> PyNone]
updated_at == IF probe = NoProbe THEN NoStamps ELSE probe.updated_at

\* Column(DateTime, onupdate=func.now()): an UPDATE sets updated_at of the
\* rows it matches to the time of the statement
onupdate(stamps, db, user_id, t) ==
    [i \in DOMAIN stamps |->
        IF i = user_id /\ (\E u \in db : u.id = i) THEN PyInt(t) ELSE stamps[i]]

\* the sequences in which a SELECT with no ORDER BY can hand out the rows:
\* the order is the server's choice, made anew for every statement
Orders(rows) ==
    {f \in [1..Cardinality(rows) -> rows] : \A i, j \in DOMAIN f : i # j => f[i] # f[j]}

Min(a, b) == IF a <= b THEN a ELSE b

\* select(User) [.where(User.is_active == is_active)] .offset(skip).limit(limit)
\* over the rows as the server hands them out
get_all(order, skip, limit, is_active) ==
    LET Selected(u) == is_active = PyNone \/ u.is_active = is_active.b
        rows == SelectSeq(order, Selected)
    IN SubSeq(rows, skip + 1, Min(skip + limit, Len(rows)))

\* the dicts the repository is called with
RepoCreates ==
    {[email |-> e, hashed_password |-> hash_password(TestPassword, FALSE).hash,
      is_active |-> a] : e \in Emails, a \in BOOLEAN}
RepoUpdates ==
    {[email |-> e, hashed_password |-> h, is_active |-> a] :
        e \in {PyAbsent} \cup {PyStr(x) : x \in Emails},
        h \in {PyAbsent, PyHash(hash_password(WrongPassword, FALSE).hash)},
        a \in {PyAbsent, PyBool(FALSE), PyBool(TRUE)}} \ {NoUpdate}

\* a finished call: before and before_at are the rows and their updated_at
\* when it was made, at the time it was made, err whether it raised, out
\* what it returned
RepoCall(fn, user_id, update_data, err, out, stamps) ==
    [fn |-> fn, user_id |-> user_id, update_data |-> update_data,
     before |-> users, before_at |-> updated_at, err |-> err, out |-> out,
     skip |-> 0, limit |-> 0, is_active |-> PyNone, at |-> now, updated_at |-> stamps]

RepoCreate(user_data) ==
    /\ nextId <= MaxUsers
    /\ LET c == create(users, nextId, user_data)
       IN /\ users' = c.db
          /\ probe' = RepoCall("create", nextId, NoUpdate, c.err,
                                IF c.err THEN <<>> ELSE <<CHOOSE u \in c.db : u.id = nextId>>,
                                updated_at)
    /\ nextId' = nextId + 1
    /\ UNCHANGED <<now, tz, held, req, svc>>

RepoGetById(user_id) ==
    /\ LET g == get_by_id(users, PyInt(user_id), FALSE)
       IN probe' = RepoCall("get_by_id", user_id, NoUpdate, g.err, <<g.row>>, updated_at)
    /\ probe' # probe
    /\ UNCHANGED <<now, tz, users, nextId, held, req, svc>>

\* UserRepository.update: the UPDATE, its commit, then get_by_id
RepoUpdate(user_id, update_data) ==
    /\ LET r == update(users, user_id, update_data)
       IN /\ users' = r.db
          /\ probe' = RepoCall("update", user_id, update_data, r.err,
                                IF r.err THEN <<>>
                                ELSE <<get_by_id(r.db, PyInt(user_id), FALSE).row>>,
                                IF r.err THEN updated_at
                                ELSE onupdate(updated_at, users, user_id, now))
    /\ UNCHANGED <<now, tz, nextId, held, req, svc>>

\* UserRepository.delete: rowcount > 0
RepoDelete(user_id) ==
    /\ users' = delete(users, user_id)
    /\ probe' = RepoCall("delete", user_id, NoUpdate, FALSE, <<users' # users>>,
                          [updated_at EXCEPT ![user_id] = PyNone])
    /\ probe' # probe
    /\ UNCHANGED <<now, tz, nextId, held, req, svc>>

RepoGetAll(skip, limit, is_active) ==
    /\ \E order \in Orders(users) :
          probe' = [RepoCall("get_all", 0, NoUpdate, FALSE,
                             get_all(order, skip, limit, is_active), updated_at)
                        EXCEPT !.skip = skip, !.limit = limit, !.is_active = is_active]
    /\ probe' # probe
    /\ UNCHANGED <<now, tz, users, nextId, held, req, svc>>

RepoNext ==
    \/ Tick
    \/ \E user_data \in RepoCreates : RepoCreate(user_data)
    \/ \E user_id \in 1..MaxUsers : RepoGetById(user_id)
    \/ \E user_id \in 1..MaxUsers, update_data \in RepoUpdates :
          RepoUpdate(user_id, update_data)
    \/ \E user_id \in 1..MaxUsers : RepoDelete(user_id)
    \/ \E skip \in 0..MaxUsers, limit \in 1..MaxUsers,
          is_active \in {PyNone, PyBool(TRUE)} :
          RepoGetAll(skip, limit, is_active)

RepoInit == Init /\ tz = 0

RepoSpec == RepoInit /\ [][RepoNext]_vars

-----------------------------------------------------------------------------
(* The login endpoints, one request at a time, with what was posted and    *)
(* what was answered.                                                      *)

\* login, lines 62-75, and login_json, lines 119-131: authenticate, then
\* refuse or create the token.  Only login sends the Bearer challenge.
LoginOutcome(fn, email, password, db, utc, offset) ==
    LET user == authenticate_user(email, password, db)
    IN IF user = NoRow
       THEN [out |-> HTTPException(401, "Credenciales incorrectas", fn = "login"),
             token |-> NoToken]
       ELSE [out |-> Return(user),
             token |-> create_access_token([sub |-> PyInt(user.id)],
                                           ACCESS_TOKEN_EXPIRE_MINUTES * 60, utc, offset)]

\* the answered request: user is the row get_by_email returned in it
LoginCall(fn, email, password, user, outcome) ==
    [fn |-> fn, email |-> email, password |-> password, user |-> user,
     out |-> outcome.out, token |-> outcome.token]

\* what a client posts: an email, registered or not, or none; the password
\* of the registration, another one, an empty one or none
PostedEmails == Emails \cup {""}
PostedPasswords == {TestPassword, WrongPassword, <<>>, NoPassword}

\* POST /auth/login with the form's username and password (both required
\* by OAuth2PasswordRequestForm)
PostLogin(email, password) ==
    /\ \E written \in BOOLEAN :
          LET o == LoginOutcome("login", email, password, users, now, tz)
          IN probe' = LoginCall("login", email, password, get_by_email(users, email),
                                IF o.token = NoToken \/ written THEN o
                                ELSE [out |-> ServerError("DBAPIError"), token |-> NoToken])
    /\ probe' # probe
    /\ UNCHANGED <<now, tz, users, nextId, held, req, svc>>

\* POST /auth/login-json with login_data: lines 110-117 refuse a missing or
\* empty email or password before anything is looked up
PostLoginJson(email, password) ==
    /\ probe' = IF email = "" \/ Falsy(password)
                 THEN LoginCall("login_json", email, password, NoRow,
                                [out |-> HTTPException(400, "Email y contrasena son requeridos",
                                                       FALSE),
                                 token |-> NoToken])
                 ELSE LoginCall("login_json", email, password, get_by_email(users, email),
                                LoginOutcome("login_json", email, password, users, now, tz))
    /\ probe' # probe
    /\ UNCHANGED <<now, tz, users, nextId, held, req, svc>>

LoginNext ==
    \/ \E email \in Emails, is_active \in BOOLEAN :
          register_user(email, TestPassword, is_active)
    \/ \E user_id \in 1..MaxUsers : toggle_user_status(user_id)
    \/ \E email \in Emails, password \in {TestPassword, WrongPassword} :
          PostLogin(email, password)
    \/ \E email \in PostedEmails, password \in PostedPasswords :
          PostLoginJson(email, password)

LoginInit == Init /\ tz = 0

LoginSpec == LoginInit /\ [][LoginNext]_vars

-----------------------------------------------------------------------------
(* The routers mounted by main.py under concurrent requests: POST          *)
(* /auth/logout and the endpoints of user_router.py that name a user by    *)
(* id.  A request gives way to the others at every await.                  *)

ByIdEndpoints ==
    {"get_user", "update_user", "toggle_user_status", "soft_delete_user",
     "hard_delete_user"}

\* Depends(get_current_active_user) or Depends(get_current_user)
Dependency(endpoint) ==
    IF endpoint \in {"toggle_user_status", "hard_delete_user"} THEN "active"
    ELSE "required"

\* a router that lets every authenticated caller through
Forbidden_Never(current_user, user_id) == FALSE

\* if current_user.id != user_id: raise HTTPException(403)
Forbidden(current_user, user_id) == current_user.id # user_id

ForbiddenDetail(endpoint) ==
    IF endpoint = "get_user" THEN "No tienes permisos para ver este usuario"
    ELSE IF endpoint = "update_user" THEN "No tienes permisos para actualizar este usuario"
    ELSE IF endpoint = "toggle_user_status"
    THEN "No tienes permisos para cambiar el estado de este usuario"
    ELSE IF endpoint = "soft_delete_user" THEN "No tienes permisos para desactivar este usuario"
    ELSE "No tienes permisos para eliminar este usuario"

\* the detail of the 500 a service method raises when update returned None
UpdateFailedDetail(endpoint) ==
    IF endpoint = "update_user" THEN "Error al actualizar usuario"
    ELSE IF endpoint = "toggle_user_status" THEN "Error al cambiar estado del usuario"
    ELSE "Error al desactivar usuario"

\* a request body without fields
NoUserData == [email |-> PyNone, password |-> NoPassword, is_active |-> PyNone]

\* UserUpdateSchema values posted to PUT /{user_id}
ApiUpdates ==
    {[NoUserData EXCEPT !.is_active = PyBool(TRUE)],
     [NoUserData EXCEPT !.email = PyStr("b@example.com")]}

\* endpoint, path parameter and body of a request
ApiRequests ==
    {<<"logout", 0, NoUserData>>}
        \cup {<<e, i, NoUserData>> : e \in ByIdEndpoints \ {"update_user"}, i \in 1..MaxUsers}
        \cup {<<"update_user", i, d>> : i \in 1..MaxUsers, d \in ApiUpdates}

\* a request in flight: sub is the subject of its token, caller the id of
\* the principal its dependency resolved (0: none yet), update_data the dict
\* it hands to update, wrote whether it changed the store.  A local that
\* is not read again is put back to its first value.
ApiCall(endpoint, user_id, user_data) ==
    [pc |-> "resolve", endpoint |-> endpoint, user_id |-> user_id, user_data |-> user_data,
     sub |-> PyNone, caller |-> 0, update_data |-> NoUpdate, wrote |-> FALSE]

\* an answered request: status and detail of the response, and shown, the
\* id of the user in its body (0: none)
Answered(c, outcome) ==
    [pc |-> "done", endpoint |-> c.endpoint, user_id |-> c.user_id, caller |-> c.caller,
     wrote |-> c.wrote, exc |-> outcome.exc, status |-> outcome.status,
     detail |-> outcome.detail, shown |-> outcome.user.id]

\* what a client of the API can send as Authorization: nothing, or a token
\* a login returned.  Every principal is registered active and can have
\* logged in (login_json, lines 119-131) before anything else happened to
\* it, so the clients hold a token for every id handed out so far.
LoginToken(id) ==
    create_access_token([sub |-> PyInt(id)], ACCESS_TOKEN_EXPIRE_MINUTES * 60, now, tz)
ApiHeaders == {NoToken} \cup {LoginToken(i) : i \in 1..(nextId - 1)}

\* Depends(security), then get_current_user, lines 33-51
ApiRequest(w, endpoint, user_id, user_data, header) ==
    /\ \E status \in {401, 403} :
          LET s == security(header, status)
              c == ApiCall(endpoint, user_id, user_data)
              payload == verify_access_token(header, now)
          IN svc' = [svc EXCEPT ![w] =
                       IF s.raised THEN Answered(c, s.exc)
                       ELSE IF CheckToken(payload).exc # ""
                       THEN Answered(c, CheckToken(payload))
                       ELSE IF CheckSubject(payload.sub).exc # ""
                       THEN Answered(c, CheckSubject(payload.sub))
                       ELSE [c EXCEPT !.sub = payload.sub]]
    /\ UNCHANGED <<now, tz, users, nextId, held, req, probe>>

\* get_current_user, lines 54-71, the endpoint's dependency, and the
\* endpoint's body up to its first await: logout builds its response with
\* timestamp=timedelta(), which LogoutResponse's datetime field refuses
\* (ValidationError); the others compare current_user.id with the path
ApiResolve(w) ==
    /\ svc[w].pc = "resolve"
    /\ \E coerces \in BOOLEAN :
          LET c == svc[w]
              g == get_by_id(users, c.sub, coerces)
              outcome == IF g.err THEN ServerError("DBAPIError")
                         ELSE Resolve(Dependency(c.endpoint), CheckUser(g.row))
              c1 == [c EXCEPT !.caller = outcome.user.id, !.sub = PyNone]
          IN svc' = [svc EXCEPT ![w] =
                       IF outcome.exc # "" THEN Answered(c, outcome)
                       ELSE IF c.endpoint = "logout"
                       THEN Answered(c1, ServerError("ValidationError"))
                       ELSE IF Forbidden(outcome.user, c.user_id)
                       THEN Answered(c1, HTTPException(403, ForbiddenDetail(c.endpoint), FALSE))
                       ELSE [c1 EXCEPT !.pc = "read"]]
    /\ UNCHANGED <<now, tz, users, nextId, held, req, probe>>

\* what update_user does with the row and the body once the email is
\* settled (user_service.py, lines 111-130)
ApiPrepare(c, existing_user, update_data, fails) ==
    LET p == PrepareUpdate([user_data |-> c.user_data, user_id |-> c.user_id,
                            existing_user |-> existing_user], update_data, fails)
    IN IF p.pc = "done" THEN Answered(c, p.result)
       ELSE [c EXCEPT !.pc = "write", !.update_data = p.update_data,
                      !.user_data = NoUserData]

\* UserService.get_user_by_id, the first await of every service method, and
\* the method's body up to its next await
ApiRead(w) ==
    /\ svc[w].pc = "read"
    /\ \E fails \in BOOLEAN :
          LET user == get_by_id(users, PyInt(svc[w].user_id), FALSE).row
              c == svc[w]
          IN svc' = [svc EXCEPT ![w] =
                IF user = NoRow
                THEN Answered(c, HTTPException(404, "Usuario no encontrado", FALSE))
                ELSE IF c.endpoint = "get_user" THEN Answered(c, Return(user))
                ELSE IF c.endpoint = "toggle_user_status"
                THEN [c EXCEPT !.pc = "write",
                               !.update_data =
                                   [NoUpdate EXCEPT !.is_active = PyBool(~user.is_active)]]
                ELSE IF c.endpoint = "soft_delete_user"
                THEN IF ~user.is_active
                     THEN Answered(c, HTTPException(400, "El usuario ya esta inactivo", FALSE))
                     ELSE [c EXCEPT !.pc = "write",
                                    !.update_data =
                                        [NoUpdate EXCEPT !.is_active = PyBool(FALSE)]]
                ELSE IF c.endpoint = "hard_delete_user" THEN [c EXCEPT !.pc = "delete"]
                ELSE IF c.user_data.email # PyNone THEN [c EXCEPT !.pc = "exists"]
                ELSE ApiPrepare(c, user, NoUpdate, fails)]
    /\ UNCHANGED <<now, tz, users, nextId, held, req, probe>>

\* update_user, lines 101-109: await exists_by_email_excluding_id
ApiExists(w) ==
    /\ svc[w].pc = "exists"
    /\ \E fails \in BOOLEAN :
          LET c == svc[w]
          IN svc' = [svc EXCEPT ![w] =
                IF exists_by_email_excluding_id(users, c.user_data.email.s, c.user_id)
                THEN Answered(c, HTTPException(400, "El email ya esta registrado", FALSE))
                ELSE ApiPrepare(c, RowOf(users, c.user_id),
                                [NoUpdate EXCEPT !.email = c.user_data.email], fails)]
    /\ UNCHANGED <<now, tz, users, nextId, held, req, probe>>

\* UserRepository.update, lines 61-66: the UPDATE and its commit
ApiWrite(w) ==
    /\ svc[w].pc = "write"
    /\ LET c == svc[w]
           r == update(users, c.user_id, c.update_data)
       IN IF r.err
          THEN /\ svc' = [svc EXCEPT ![w] = Answered(c, ServerError("IntegrityError"))]
               /\ UNCHANGED users
          ELSE /\ svc' = [svc EXCEPT ![w] = [c EXCEPT !.pc = "reread",
                                                      !.update_data = NoUpdate,
                                                      !.wrote = r.db # users]]
               /\ users' = r.db
    /\ UNCHANGED <<now, tz, nextId, held, req, probe>>

\* UserRepository.update, line 69, and the service method's check of what
\* it returned
ApiReread(w) ==
    /\ svc[w].pc = "reread"
    /\ LET c == svc[w]
           updated_user == get_by_id(users, PyInt(c.user_id), FALSE).row
       IN svc' = [svc EXCEPT ![w] =
                    IF updated_user = NoRow
                    THEN Answered(c, HTTPException(500, UpdateFailedDetail(c.endpoint), FALSE))
                    ELSE Answered(c, Return(updated_user))]
    /\ UNCHANGED <<now, tz, users, nextId, held, req, probe>>

\* hard_delete_user: await delete, then the router's message
ApiDelete(w) ==
    /\ svc[w].pc = "delete"
    /\ users' = delete(users, svc[w].user_id)
    /\ svc' = [svc EXCEPT ![w] =
                  Answered([svc[w] EXCEPT !.wrote = users' # users],
                           [Return(NoRow) EXCEPT
                               !.detail = IF users' # users
                                          THEN "Usuario eliminado exitosamente"
                                          ELSE "Error al eliminar"])]
    /\ UNCHANGED <<now, tz, nextId, held, req, probe>>

\* the response is sent
ApiRespond(w) ==
    /\ svc[w].pc = "done"
    /\ svc' = [svc EXCEPT ![w] = NoCall]
    /\ UNCHANGED <<now, tz, users, nextId, held, req, probe>>

ApiNext ==
    \/ \E email \in Emails : register_user(email, TestPassword, TRUE)
    \/ \E w \in Workers :
          /\ svc[w].pc = "idle"
          /\ \E r \in ApiRequests, header \in ApiHeaders :
                ApiRequest(w, r[1], r[2], r[3], header)
    \/ \E w \in Workers : ApiResolve(w)
    \/ \E w \in Workers : ApiRead(w)
    \/ \E w \in Workers : ApiExists(w)
    \/ \E w \in Workers : ApiWrite(w)
    \/ \E w \in Workers : ApiReread(w)
    \/ \E w \in Workers : ApiDelete(w)
    \/ \E w \in Workers : ApiRespond(w)

ApiInit == Init /\ tz = 0

ApiSpec == ApiInit /\ [][ApiNext]_vars

-----------------------------------------------------------------------------
(* UserService.toggle_user_status called concurrently on one principal,    *)
(* with no other writer of is_active.                                     *)

\* the first call notes the principal and its flag before any toggle
ToggleCall(w, user_id) ==
    /\ svc[w].pc = "idle"
    /\ probe.fn = "toggle" => probe.user_id = user_id
    /\ \E u \in users : u.id = user_id
    /\ svc' = [svc EXCEPT ![w] =
                  [ApiCall("toggle_user_status", user_id, NoUserData) EXCEPT !.pc = "read"]]
    /\ probe' = IF probe.fn = "toggle" THEN probe
                 ELSE [fn |-> "toggle", user_id |-> user_id,
                       initial |-> RowOf(users, user_id).is_active]
    /\ UNCHANGED <<now, tz, users, nextId, held, req>>

ToggleNext ==
    \/ \E email \in Emails, is_active \in BOOLEAN :
          probe = NoProbe /\ register_user(email, TestPassword, is_active)
    \/ \E w \in Workers, user_id \in 1..MaxUsers : ToggleCall(w, user_id)
    \/ \E w \in Workers : ApiRead(w)
    \/ \E w \in Workers : ApiWrite(w)
    \/ \E w \in Workers : ApiReread(w)

ToggleInit == Init /\ tz = 0

ToggleSpec == ToggleInit /\ [][ToggleNext]_vars

-----------------------------------------------------------------------------
(* Properties *)

Finished(mode) == req.pc = "done" /\ req.mode = mode

\* the subject claim of the presented token is there and is not null
HasSubject(token) == token.claims.sub.t \notin {"absent", "none"}

\* C1: get_current_user returns a principal only if the presented token
\* verified (configured secret and algorithm, exp not in the past), the
\* claims carry a non-null sub, a principal whose id equals that sub was in
\* the store when it was read, and that principal was active; in every other
\* case it returns none.
C1_PrincipalOnlyIfAllChecksHeld ==
    (Finished("required") /\ req.result.user # NoRow) =>
        /\ req.result.exc = ""
        /\ req.verified
        /\ HasSubject(req.credentials)
        /\ req.queried
        /\ req.result.user \in req.matched
        /\ req.result.user.is_active

C1_Witness ==
    /\ Finished("required")
    /\ req.result.exc = ""
    /\ req.result.user.id = 2
    /\ Cardinality(users) = 2

\* C2: for a stored active user n, login with its email and password
\* returns a token, and that token, presented before it expires while the
\* user stays stored and active, resolves to exactly user n.
C2_LoginFlowResolvesToUser ==
    /\ held.uid # 0 => held.status = 200
    /\ (/\ Finished("required")
        /\ held.status = 200 /\ held.uid # 0
        /\ req.header = held.token
        /\ req.verified
        /\ \E u \in req.matched : u.id = held.uid /\ u.is_active
        /\ \E u \in users : u.id = held.uid /\ u.is_active)
       => (req.result.exc = "" /\ req.result.user.id = held.uid)

\* C3: get_current_user_optional with a token presented never lets an
\* error through: whenever resolution does not end in an active stored
\* principal, the result is None and no exception reaches the caller.
C3_OptionalNeverPropagates ==
    (Finished("optional") /\ req.header # NoToken) =>
        /\ req.result.exc = ""
        /\ (~(req.verified /\ HasSubject(req.credentials)
              /\ \E u \in req.matched : u.is_active)
            => req.result = Return(NoRow))

\* C4: get_current_user_optional with no Authorization header ends in
\* None, with no exception and no error response.
C4_OptionalNoHeaderIsAnonymous ==
    (Finished("optional") /\ req.header = NoToken) => req.result = Return(NoRow)

\* the presented token is correctly signed and its exp lies before the time
\* of the request
ExpiredToken(token) ==
    /\ token.kind = "jwt" /\ token.key = SECRET_KEY /\ token.alg = ALGORITHM
    /\ token.claims.exp.t = "int" /\ token.claims.exp.i < now

\* the reason get_current_user reports for a token that is no JWT
InvalidTokenReason == CheckToken(verify_access_token(GarbageToken, now)).detail

\* C5 as stated: get_current_user with a correctly signed, expired token
\* fails with a reason of its own, different from the reason for a
\* malformed or badly signed token.
C5_ExpiredReasonIsDistinct ==
    (Finished("required") /\ ExpiredToken(req.header)) =>
        /\ req.result.exc = "HTTPException"
        /\ req.result.detail # InvalidTokenReason

\* C5 amended: get_current_user with a correctly signed, expired token fails
\* with 401 and the reason "Token invalido o expirado", the same reason it
\* reports for a malformed or badly signed token.
C5_ExpiredSharesInvalidReason ==
    (Finished("required") /\ ExpiredToken(req.header)) =>
        /\ req.result = HTTPException(401, "Token invalido o expirado", TRUE)
        /\ req.result.detail = InvalidTokenReason
        /\ ~req.queried

C5_Witness ==
    /\ Finished("required")
    /\ ExpiredToken(req.header)
    /\ HasSubject(req.header)
    /\ tz = 0

\* the four reasons of the resolver
Reasons ==
    {CheckToken(PyNone).detail, CheckSubject(PyAbsent).detail, CheckUser(NoRow).detail,
     CheckUser([NoRow EXCEPT !.id = 1]).detail}

\* the outcome the ordered checks prescribe for the request
FirstFailingCheck ==
    IF ~(req.verified /\ req.credentials.claims.sub.t # "none")
    THEN HTTPException(401, "Token invalido o expirado", TRUE)
    ELSE IF ~HasSubject(req.credentials)
    THEN HTTPException(401, "Token invalido: falta ID de usuario", TRUE)
    ELSE IF req.matched = {}
    THEN HTTPException(401, "Usuario no encontrado", TRUE)
    ELSE IF \E u \in req.matched : ~u.is_active
    THEN HTTPException(401, "Usuario inactivo", TRUE)
    ELSE Return(CHOOSE u \in req.matched : TRUE)

\* C6: the checks run in the order token, subject, principal found,
\* principal active; the request ends in the outcome of the first check that
\* fails (or in the principal), the four reasons are pairwise distinct, and
\* the store is not read when the token does not verify or has no subject.
C6_FirstFailingCheckDecides ==
    /\ Cardinality(Reasons) = 4
    /\ req.queried => (req.verified /\ HasSubject(req.credentials))
    /\ (Finished("required") /\ req.header # NoToken) => req.result = FirstFailingCheck

\* C7: every failure of get_current_user and of get_current_active_user
\* reaches the boundary as HTTP 401 with a Bearer challenge.
C7_FailuresAre401WithChallenge ==
    (req.pc = "done" /\ req.mode \in {"required", "active"} /\ req.result.exc # "") =>
        (req.result.status = 401 /\ req.result.challenge)

\* C8: get_current_active_user gives what get_current_user gave, the same
\* principal or the same failure: its own is_active check never raises 400.
C8_ActiveEqualsRequired ==
    Finished("active") =>
        /\ req.result = req.inner
        /\ req.result.status # 400

C8_Witness ==
    /\ Finished("active")
    /\ req.inner.exc = ""
    /\ req.inner.user.id >= 1
    /\ \E u \in users : ~u.is_active

\* a token whose claims jose accepts when the signature and exp are good
WellTyped(token) == token.kind = "jwt" /\ token.claims.sub.t # "none"

\* C9: a token created at time t with ttl d verifies at every time before
\* t + d and fails at every time after it; with the 30 minutes ttl it
\* verifies up to t + 29 min and fails from t + 31 min on.
C9_VerifiesUntilTtlOnly ==
    (held.status = 200 /\ WellTyped(held.token)) =>
        /\ now < held.iat + held.delta => verify_access_token(held.token, now) # PyNone
        /\ now > held.iat + held.delta => verify_access_token(held.token, now) = PyNone
        /\ (held.delta = 30 * 60 /\ now <= held.iat + 29 * 60)
              => verify_access_token(held.token, now) # PyNone
        /\ (held.delta = 30 * 60 /\ now >= held.iat + 31 * 60)
              => verify_access_token(held.token, now) = PyNone

\* C10: create_access_token stores exp as the integer epoch seconds of the
\* true UTC time of the call plus the ttl, whatever the host's time zone:
\* now + 1800 for the 30 minutes ttl.
C10_ExpIsUtcNowPlusTtl ==
    (held.status = 200 /\ held.token.kind = "jwt") =>
        /\ held.token.claims.exp = PyInt(held.iat + held.delta)
        /\ held.delta = 30 * 60 => held.token.claims.exp.i = held.iat + 1800

\* verify_access_token was called on the held token as issued
VerifiedAsIssued ==
    /\ probe # NoProbe
    /\ probe.fn = "verify_access_token"
    /\ probe.pos = 0
    /\ held.status = 200
    /\ probe.token = held.token

Tampered ==
    /\ probe # NoProbe
    /\ probe.fn = "verify_access_token"
    /\ probe.pos > 0

\* bits of the last character of the segment that belong to no byte
PaddingBits == 6 * SegmentLen - 8 * digest_size

\* C12 as stated: for a valid unexpired token and every position of its
\* signature segment, replacing the character there by any different
\* character makes verify_access_token return no claims, the last
\* character included.
C12_AnyReplacementFails ==
    Tampered => probe.out = PyNone

\* C12 amended: the replacement makes verify_access_token return no claims
\* at every position but for two kinds of replacement that leave the decoded
\* signature as it was and still verify: at the last position a base64url
\* character that differs from the original only in the padding bits, and
\* at any position "+" for "-" or "/" for "_".
C12_ReplacementFailsUnlessSameBytes ==
    Tampered =>
        LET orig == crypto_segment(probe.token)[probe.pos]
            ch == probe.seg[probe.pos]
        IN IF ch = 64 THEN probe.out = PyNone
           ELSE IF B64Value(ch) = orig THEN probe.out = probe.token.claims
           ELSE IF /\ probe.pos = SegmentLen
                   /\ B64Value(ch) \div Pow2(PaddingBits) = orig \div Pow2(PaddingBits)
           THEN probe.out = probe.token.claims
           ELSE probe.out = PyNone

C12_Witness ==
    /\ Tampered
    /\ probe.pos = SegmentLen
    /\ probe.seg[probe.pos] < 64
    /\ probe.out = probe.token.claims
    /\ probe.out.sub = PyStr("1")

\* verify_access_token was called on a token string as a caller holds it
Verified ==
    /\ probe # NoProbe
    /\ probe.fn = "verify_access_token"
    /\ probe.pos = 0

\* the four causes: malformed, signature not made with the configured
\* secret, another algorithm, exp in the past at time t
Malformed(token) == token.kind # "jwt"
BadSignature(token) == token.key # SECRET_KEY
OtherAlgorithm(token) == token.alg # ALGORITHM
ExpInPast(token, t) == token.claims.exp.t = "int" /\ token.claims.exp.i < t

\* C13 as stated: verify_access_token returns None for every token that is
\* malformed, not signed with the configured secret, names another
\* algorithm or has exp in the past, and returns the complete claims for
\* every other token.
C13_NoneExactlyForFourCauses ==
    Verified =>
        IF \/ Malformed(probe.token) \/ BadSignature(probe.token)
           \/ OtherAlgorithm(probe.token) \/ ExpInPast(probe.token, probe.at)
        THEN probe.out = PyNone
        ELSE probe.out = probe.token.claims

\* the sub claim is there and is not a string
SubNotString(token) == token.claims.sub.t \notin {"absent", "str"}

\* C13 amended: verify_access_token returns None for every token of the
\* four causes and also for a well-formed, correctly signed, unexpired token
\* whose claims the library rejects (a sub that is not a string); it returns
\* the complete claims for every other token, and nothing else ever.
C13_NoneAlsoForRejectedClaims ==
    Verified =>
        IF \/ Malformed(probe.token) \/ BadSignature(probe.token)
           \/ OtherAlgorithm(probe.token) \/ ExpInPast(probe.token, probe.at)
           \/ SubNotString(probe.token)
        THEN probe.out = PyNone
        ELSE probe.out = probe.token.claims

C13_Witness ==
    /\ Verified
    /\ ~Malformed(probe.token) /\ ~BadSignature(probe.token)
    /\ ~OtherAlgorithm(probe.token) /\ ~ExpInPast(probe.token, probe.at)
    /\ SubNotString(probe.token)
    /\ probe.out = PyNone

\* the rules of the policy in their order: whether password p fails rule i
RuleFails(i, p) ==
    IF p = NoPassword THEN i # 3
    ELSE CASE i = 1 -> p = <<>>
           [] i = 2 -> Len(p) < 8
           [] i = 3 -> Len(p) > 128
           [] i = 4 -> Range(p) \cap Lower = {}
           [] i = 5 -> Range(p) \cap Upper = {}
           [] i = 6 -> Range(p) \cap Digit = {}
           [] i = 7 -> Range(p) \cap Special = {}

\* the reason given for each rule
RuleReason ==
    << "La contrasena no puede estar vacia",
       "La contrasena debe tener al menos 8 caracteres",
       "La contrasena no puede exceder 128 caracteres",
       "La contrasena debe contener al menos una letra minuscula",
       "La contrasena debe contener al menos una letra mayuscula",
       "La contrasena debe contener al menos un numero",
       "La contrasena debe contener al menos un caracter especial" >>

\* the rules the password fails
Failing(p) == {i \in 1..Len(RuleReason) : RuleFails(i, p)}

\* the reference: the reason of the first failing rule, or valid
Reference(p) ==
    IF Failing(p) = {} THEN <<TRUE, "">>
    ELSE <<FALSE, RuleReason[CHOOSE i \in Failing(p) : \A j \in Failing(p) : i <= j]>>

Validated == probe # NoProbe /\ probe.fn = "validate_password_strength"

\* C14: validate_password_strength equals the reference that evaluates the
\* rules in the order empty, shorter than 8, longer than 128, no lowercase,
\* no uppercase, no digit, no special character and reports the first that
\* fails; a password failing exactly one rule gets that rule's reason, and
\* "abcdefgh" gets the missing-uppercase reason.
C14_FirstFailingRuleIsReported ==
    Validated =>
        /\ probe.out = Reference(probe.password)
        /\ \A i \in 1..Len(RuleReason) :
              Failing(probe.password) = {i} => probe.out = <<FALSE, RuleReason[i]>>
        /\ probe.password = <<"a", "b", "c", "d", "e", "f", "g", "h">>
              => probe.out = <<FALSE, "La contrasena debe contener al menos una letra mayuscula">>

C14_Witness ==
    /\ Validated
    /\ Failing(probe.password) = {4, 5}
    /\ probe.out = <<FALSE, RuleReason[4]>>

\* the password is empty, missing or made of blanks only
Blank(p) == p = NoPassword \/ p = <<>> \/ Range(p) \subseteq Whitespace

\* C15: hash_password raises ValueError for every empty, missing or
\* whitespace-only password, without calling the hash function and without
\* producing a hash.
C15_BlankPasswordIsRefused ==
    (probe # NoProbe /\ probe.fn = "hash_password" /\ Blank(probe.password)) =>
        /\ probe.out.raised = "ValueError"
        /\ probe.out.bcrypt = 0
        /\ probe.out.hash = EmptyHash

C15_Witness ==
    /\ probe # NoProbe
    /\ probe.fn = "hash_password"
    /\ probe.password = [i \in 1..8 |-> " "]
    /\ probe.out.raised = "ValueError"

C17_ValidatesBeforeHashing ==
    (probe # NoProbe /\ probe.fn = "hash_password_with_validation") =>
        /\ probe.out.bcrypt > 0 => Failing(probe.password) = {}
        /\ \/ probe.out.ret[1] # EmptyHash /\ probe.out.ret[2] = ""
           \/ probe.out.ret[1] = EmptyHash /\ probe.out.ret[2] # ""
        /\ Failing(probe.password) # {} =>
              probe.out.ret = <<EmptyHash, Reference(probe.password)[2]>>

C17_Witness ==
    /\ probe # NoProbe
    /\ probe.fn = "hash_password_with_validation"
    /\ Failing(probe.password) = {6}
    /\ probe.out.bcrypt = 0
    /\ probe.out.ret = <<EmptyHash, "La contrasena debe contener al menos un numero">>

\* a call of the service in which pwd_context.hash raised has ended
HashFailed(w) == svc[w].pc = "done" /\ svc[w].hashfail

\* C18 as stated: a failure of the hash primitive aborts the call as an
\* internal error: hash_password_with_validation does not return an empty
\* hash for it, and the call does not answer 400 as for a weak password.
C18_HashFailureIsInternalError ==
    \A w \in Workers :
        HashFailed(w) =>
            /\ svc[w].hv = <<>> \/ svc[w].hv[1] # EmptyHash
            /\ svc[w].result.exc # ""
            /\ svc[w].result.status # 400

\* C18 amended: a failure of the hash primitive is caught by
\* hash_password_with_validation, which returns the empty hash with the
\* reason "Error al hashear la contrasena: ..."; register_user and
\* update_user answer 400 with that reason, as they do for a weak password,
\* and write nothing.
C18_HashFailureIsReportedAs400 ==
    \A w \in Workers :
        HashFailed(w) =>
            /\ svc[w].hv = <<EmptyHash, "Error al hashear la contrasena: HashError">>
            /\ svc[w].result = HTTPException(400, svc[w].hv[2], FALSE)
            /\ ~svc[w].wrote

C18_Witness ==
    /\ \E w \in Workers : HashFailed(w) /\ svc[w].op = "register_user"
    /\ \E w \in Workers : HashFailed(w) /\ svc[w].op = "update_user"

\* the passwords the service is called with
ServicePasswords ==
    {d.password : d \in RegisterData} \cup {d.password : d \in UpdateData}

\* C19: after any sequence of register_user and update_user calls, the
\* stored credential of every principal is a non-empty hash that
\* hash_password produced for a password passing every strength rule; no
\* principal is stored with an empty hash or with anything but a hash.
C19_StoredCredentialIsValidatedHash ==
    \A u \in users :
        /\ u.hashed_password # EmptyHash
        /\ u.hashed_password.scheme = "bcrypt"
        /\ \E p \in ServicePasswords :
              /\ Failing(p) = {}
              /\ hash_password(p, FALSE) =
                    [raised |-> "", hash |-> u.hashed_password, bcrypt |-> 1]

C19_Witness ==
    /\ \E u \in users : u.hashed_password = hash_password(WrongPassword, FALSE).hash
    /\ \E u \in users : u.hashed_password = hash_password(TestPassword, FALSE).hash
    /\ \E w \in Workers :
          /\ svc[w].pc = "done"
          /\ svc[w].result.status = 400
          /\ svc[w].hv = <<EmptyHash, "La contrasena debe contener al menos una letra mayuscula">>

\* C20: for every interleaving of concurrent register_user and update_user
\* calls, no two stored principals have the same email.
C20_EmailsAreUnique ==
    \A u, v \in users : u.email = v.email => u = v

\* two calls had found the same email free before either wrote; one wrote it
C20_Witness ==
    /\ Cardinality(users) = 2
    /\ \E w \in Workers :
          /\ svc[w].pc = "done"
          /\ svc[w].result = ServerError("IntegrityError")

\* the call of worker w does its repository write in this step
Writes(w) ==
    \/ svc[w].pc = "create" /\ svc'[w].pc = "done" /\ svc'[w].wrote
    \/ svc[w].pc = "update" /\ svc'[w].pc = "reread"

\* C21: a registration with a valid password whose email is already taken
\* fails with HTTP 400 'El email ya esta registrado' and creates no
\* principal, both when the row with that email is there at the call's
\* lookup and when a concurrent registration commits it after the lookup
\* returned absent.
C21_TakenEmailIsConstraintViolation ==
    [][\A w \in Workers :
          /\ (svc[w].pc = "idle" /\ svc'[w].pc = "done" /\ svc'[w].op = "register_user")
                => /\ svc'[w].result =
                          HTTPException(400, "El email ya esta registrado", FALSE)
                   /\ users' = users
          /\ (/\ svc[w].pc = "create" /\ svc'[w].pc = "done"
              /\ svc'[w].result # Cancelled
              /\ svc'[w].hv[2] = ""
              /\ \E u \in users : u.email = svc[w].user_data.email)
                => /\ svc'[w].result =
                          HTTPException(400, "El email ya esta registrado", FALSE)
                   /\ users' = users]_vars

\* C25: in register_user and update_user the store changes only in the step
\* that does the call's repository write: a call abandoned before that step
\* (after the email lookup, after validation, after hashing) has changed
\* nothing, and its abandonment changes nothing.
C25_OnlyTheWriteChangesTheStore ==
    [][/\ users' # users => \E w \in Workers : Writes(w)
       /\ \A w \in Workers :
             (svc'[w].pc = "done" /\ svc[w].pc # "done" /\ svc'[w].result = Cancelled)
                => (users' = users /\ ~svc'[w].wrote)]_vars

C25_Witness ==
    \E w \in Workers :
        /\ svc[w].pc = "done"
        /\ svc[w].result = Cancelled
        /\ svc[w].op = "update_user"
        /\ Cardinality(users) = 2

Columns == {"email", "hashed_password", "is_active"}

\* the value update_data provides for column f
Provided(update_data, f) ==
    IF f = "email" THEN update_data.email.s
    ELSE IF f = "hashed_password" THEN update_data.hashed_password.h
    ELSE update_data.is_active.b

\* the last call was get_by_id with an id no row had: it returned None and
\* raised nothing
MissReturnsNone ==
    (probe.fn = "get_by_id" /\ RowOf(probe.before, probe.user_id) = NoRow)
        => (~probe.err /\ probe.out = <<NoRow>>)

\* the last call was update with an id no row had: nothing changed and it
\* returned None
UpdateOfMissingChangesNothing ==
    (probe.fn = "update" /\ RowOf(probe.before, probe.user_id) = NoRow)
        => /\ ~probe.err
           /\ users = probe.before
           /\ probe.updated_at = probe.before_at
           /\ probe.out = <<NoRow>>

\* the update did not raise; the row it named has the provided columns set
\* and its other columns of Columns as before; every other row is as before,
\* updated_at included; the row as it now is was returned
MergedProvidedOnly ==
    LET old == RowOf(probe.before, probe.user_id)
        new == RowOf(users, probe.user_id)
    IN /\ ~probe.err
       /\ new.id = old.id
       /\ \A f \in Columns :
             new[f] = IF probe.update_data[f] # PyAbsent
                      THEN Provided(probe.update_data, f) ELSE old[f]
       /\ {u \in users : u.id # probe.user_id} = {u \in probe.before : u.id # probe.user_id}
       /\ \A i \in DOMAIN probe.updated_at :
             i # probe.user_id => probe.updated_at[i] = probe.before_at[i]
       /\ probe.out = <<new>>

\* C22 as stated: get_by_id on a missing id returns None and raises
\* nothing; update on an existing row changes exactly the provided fields,
\* leaves every other field of the row and every other row unchanged and
\* returns the updated row; update on a missing id changes nothing and
\* returns None.
C22_UpdateChangesExactlyProvidedFields ==
    /\ MissReturnsNone
    /\ UpdateOfMissingChangesNothing
    /\ (probe.fn = "update" /\ RowOf(probe.before, probe.user_id) # NoRow)
          => /\ MergedProvidedOnly
             /\ probe.updated_at[probe.user_id] = probe.before_at[probe.user_id]

\* another row holds the email the update provides
EmailTaken ==
    /\ probe.update_data.email # PyAbsent
    /\ \E u \in probe.before : u.id # probe.user_id /\ u.email = probe.update_data.email.s

\* C22 amended: as stated, except that an update of an existing row also
\* sets the row's updated_at to the time of the update, and that an update
\* providing an email another row holds raises IntegrityError and changes
\* nothing.
C22_UpdateChangesProvidedFieldsAndUpdatedAt ==
    /\ MissReturnsNone
    /\ UpdateOfMissingChangesNothing
    /\ (probe.fn = "update" /\ RowOf(probe.before, probe.user_id) # NoRow)
          => IF EmailTaken
             THEN /\ probe.err
                  /\ users = probe.before
                  /\ probe.updated_at = probe.before_at
             ELSE /\ MergedProvidedOnly
                  /\ probe.updated_at[probe.user_id] = PyInt(probe.at)

C22_Witness ==
    /\ probe.fn = "update"
    /\ ~probe.err
    /\ Cardinality(users) = 2
    /\ probe.update_data.email = PyAbsent
    /\ probe.update_data.hashed_password # PyAbsent
    /\ probe.update_data.is_active = PyAbsent
    /\ RowOf(probe.before, probe.user_id) # NoRow
    /\ RowOf(probe.before, probe.user_id) # RowOf(users, probe.user_id)
    /\ ~RowOf(users, probe.user_id).is_active
    /\ probe.at > 0

\* the rows in the order of their primary key
ById(rows) == CHOOSE f \in Orders(rows) : \A i, j \in DOMAIN f : i < j => f[i].id < f[j].id

\* C23: get_all(offset, limit) with no filter returns exactly the slice
\* [offset, offset + limit) of the stored rows in the order of their ids
\* (from which disjoint, covering consecutive pages follow).
C23_PagesFollowPrimaryKeyOrder ==
    (probe.fn = "get_all" /\ probe.is_active = PyNone)
        => probe.out = SubSeq(ById(users), probe.skip + 1,
                              Min(probe.skip + probe.limit, Cardinality(users)))

\* C28: a deactivation or deletion acts on the tokens already issued: every
\* resolution that reads the store while the principal of the presented,
\* verified token is inactive or no longer stored fails, the mandatory ones
\* with 401 'Usuario inactivo' resp. 'Usuario no encontrado', and the
\* optional one yields None.
C28_DeactivationActsOnIssuedTokens ==
    (/\ req.pc = "done"
     /\ req.queried
     /\ req.header = held.token
     /\ held.uid # 0
     /\ ~(\E u \in req.matched : u.is_active))
        => req.result =
              IF req.mode = "optional" THEN Return(NoRow)
              ELSE IF req.matched = {}
              THEN HTTPException(401, "Usuario no encontrado", TRUE)
              ELSE HTTPException(401, "Usuario inactivo", TRUE)

\* the three checks of the login held for the row read in the request
Authenticated ==
    /\ probe.user # NoRow
    /\ probe.user.email = probe.email
    /\ verify_password(probe.password, probe.user.hashed_password)
    /\ probe.user.is_active

\* the request was refused as a failed login: no token, 401 'Credenciales
\* incorrectas'
Refused401 ==
    /\ probe.token = NoToken
    /\ probe.out = HTTPException(401, "Credenciales incorrectas", probe.fn = "login")

\* C26 as stated: a login answers with a token only when the email is that
\* of a stored principal, the password verifies against its hash and it is
\* active; in each of the three failure cases there is no token and the
\* answer is the same 401 'Credenciales incorrectas'.
C26_TokenOnlyForVerifiedActive ==
    probe.fn \in {"login", "login_json"} =>
        /\ probe.token # NoToken => Authenticated
        /\ ~Authenticated => Refused401

\* C26 amended: as stated for a non-empty email and password; login_json
\* with a missing or empty email or password answers 400 'Email y
\* contrasena son requeridos' with no token and no lookup.
C26_TokenOnlyForVerifiedActiveNonEmpty ==
    probe.fn \in {"login", "login_json"} =>
        /\ probe.token # NoToken => Authenticated
        /\ probe.token # NoToken =>
              (probe.out.exc = "" /\ probe.out.user = probe.user
               /\ probe.token.claims.sub = str(PyInt(probe.user.id)))
        /\ IF probe.email # "" /\ ~Falsy(probe.password)
           THEN ~Authenticated => Refused401
           ELSE /\ probe.token = NoToken
                /\ probe.user = NoRow
                /\ probe.out = HTTPException(400, "Email y contrasena son requeridos", FALSE)

C26_Witness ==
    /\ probe.fn = "login_json"
    /\ probe.password = TestPassword
    /\ probe.user # NoRow
    /\ ~probe.user.is_active
    /\ Refused401
    /\ \E u \in users : u.is_active

\* C24: logout is a no-op on token validity: a logout presented with the
\* token of a stored, active principal succeeds without changing the store
\* or the token, and the token still verifies afterwards.
C24_LogoutSucceedsAndChangesNothing ==
    \A w \in Workers :
        (svc[w].pc = "done" /\ svc[w].endpoint = "logout" /\ svc[w].caller # 0)
            => /\ svc[w].status = 200
               /\ ~svc[w].wrote
               /\ verify_access_token(LoginToken(svc[w].caller), now) # PyNone

\* C27: a request to one of the endpoints that name a user by id, made by
\* an authenticated caller, is answered 403 and writes nothing when the id
\* is not the caller's; the user in a response body is the caller; a
\* request writes only when the id is the caller's and then changes no row
\* but the caller's; its steps that are not its write leave the store alone.
C27_SelfOnlyAuthorization ==
    [][\A w \in Workers :
          /\ (svc'[w].pc = "done" /\ svc'[w].endpoint \in ByIdEndpoints /\ svc'[w].caller # 0)
                => /\ svc'[w].user_id # svc'[w].caller
                         => (svc'[w].status = 403 /\ ~svc'[w].wrote)
                   /\ svc'[w].shown \in {0, svc'[w].caller}
          /\ (svc[w].pc \in {"write", "delete"} /\ svc'[w] # svc[w])
                => /\ svc[w].caller = svc[w].user_id
                   /\ {u \in users : u.id # svc[w].caller}
                         = {u \in users' : u.id # svc[w].caller}
          /\ (svc[w].pc \notin {"write", "delete"} /\ svc'[w] # svc[w])
                => users' = users]_vars

C27_Witness ==
    /\ Cardinality(users) = 2
    /\ \E w \in Workers :
          /\ svc[w].pc = "done"
          /\ svc[w].endpoint = "hard_delete_user"
          /\ svc[w].caller # 0
          /\ svc[w].status = 403
    /\ \E w \in Workers :
          /\ svc[w].pc = "done"
          /\ svc[w].endpoint = "soft_delete_user"
          /\ svc[w].wrote

Toggled == {w \in Workers : svc[w].pc = "done" /\ svc[w].status = 200}

\* C30: when n toggle calls on a principal have all completed, with no
\* other writer of is_active, the flag is its initial value for even n and
\* the negation for odd n, however the calls interleaved.
C30_ToggleIsExactFlip ==
    (probe.fn = "toggle" /\ \A w \in Workers : svc[w].pc \in {"idle", "done"})
        => RowOf(users, probe.user_id).is_active =
              IF Cardinality(Toggled) % 2 = 0 THEN probe.initial ELSE ~probe.initial

====
